---- MODULE Spec2Model ----
(***************************************************************************)
(* MultiArena (include/MultiArena/MultiArena.h): a pool of NUM_ARENAS      *)
(* arenas of ARENA_SIZE bytes each, served by a bump pointer in the active *)
(* arena.  The module models the unsynchronized engine (one operation at a *)
(* time) and the synchronized engine (threads, a mutex, atomic counters).  *)
(*                                                                         *)
(* Numbers.  size_t and uintptr_t values are kept as hi*2^32 + lo with lo  *)
(* a small (possibly negative) integer, because byte counts around 2^32    *)
(* (the range of SizeType = uint32_t) decide what the code does and 2^32   *)
(* itself is outside the model checker's integers.  A SizeType value is    *)
(* kept as its representative lo modulo 2^32: a negative representative v  *)
(* stands for 2^32 + v.  Addition and subtraction modulo 2^32 are then the *)
(* integer operations on representatives.                                  *)
(*                                                                         *)
(* Addresses.  A pointer is storage_base + off - wrap*2^32, where          *)
(* storage_base is _arenaData.data(); arenaDataAddr is storage_base modulo *)
(* the largest alignment considered.                                       *)
(***************************************************************************)
EXTENDS Integers, Sequences, FiniteSets, TLC

VARIABLES
    arenaDataAddr,  \* _arenaData.data() modulo AddrModulus
    pool,           \* the member variables of the memory resource
    live,           \* allocations handed to the client and not yet passed to deallocate
    last,           \* the last call and what it threw (synchronized engine: per thread)
    netAllocs,      \* non-null allocate returns minus completed deallocate calls
    hugeAllocs,     \* non-null allocate returns for byte counts of 2^32 - 8 and more
    mtx,            \* _mtx: 0 when free, else the thread that holds it
    pc,             \* per thread: position in do_allocate / do_deallocate
    loc             \* per thread: arguments, locals and outcome of the call in progress

vars == <<arenaDataAddr, pool, live, last, netAllocs, hugeAllocs, mtx, pc, loc>>

(***************************************************************************)
(* Geometry and bounds                                                     *)
(***************************************************************************)
NUM_ARENAS == 3
ARENA_BINS == 1
MaxHuge == 1
MaxLive == 3
binSize == 16
exceptionsEnabled == TRUE

numArenas == NUM_ARENAS
arenaSize == ARENA_BINS * binSize
ArenaIds == 0 .. (numArenas - 1)
AddrModulus == 2 * binSize

(***************************************************************************)
(* 64-bit and 32-bit arithmetic                                            *)
(***************************************************************************)
W(h, l) == [hi |-> h, lo |-> l]
WLess(a, b) == a.hi < b.hi \/ (a.hi = b.hi /\ a.lo < b.lo)
WLeq(a, b) == a = b \/ WLess(a, b)
WAdd(a, b) == W(a.hi + b.hi, a.lo + b.lo)

\* SizeType(x) for a 64-bit x: the low 32 bits.
SizeTypeOf(w) == w.lo
\* The 64-bit value of a SizeType representative.
SizeTypeValue(v) == IF v < 0 THEN W(1, v) ELSE W(0, v)
SizeTypeGreater(a, b) == WLess(SizeTypeValue(b), SizeTypeValue(a))

Ptr(w, o) == [null |-> FALSE, wrap |-> w, off |-> o]
Null == [null |-> TRUE, wrap |-> 0, off |-> 0]

\* p mod alignment for a power-of-two alignment dividing 2^32.
AddrMod(p, alignment) == (arenaDataAddr + p.off) % alignment

(***************************************************************************)
(* Inputs                                                                  *)
(***************************************************************************)
SmallByteCounts ==
    {W(0, b) : b \in {0, binSize \div 2, arenaSize, arenaSize + 1}}
\* 2^32 + 8 (SizeType(bytes) drops the high bit) and 2^32 - 8 (SizeType(bytes)
\* plus the alignment padding wraps).
HugeByteCounts == {W(1, binSize \div 2), W(1, 0 - (binSize \div 2))}
ByteCounts == SmallByteCounts \cup HugeByteCounts
Alignments == {1, binSize, 2 * binSize}
\* Storage base addresses modulo AddrModulus: aligned to a cache line (fixed
\* flavor, alignas), and as an upstream resource asked for alignment
\* alignof(std::byte) = 1 may return it (dynamic flavor).
BaseAddrs == {0, binSize \div 2}

(***************************************************************************)
(* UnsynchronizedArenaResourceBase                                         *)
(***************************************************************************)
allocationsInArena(p, arenaId) == p.numAllocationsInArena[arenaId]

RECURSIVE SumCounts(_, _)
SumCounts(f, n) ==
    IF n = 0 THEN W(0, 0) ELSE WAdd(SumCounts(f, n - 1), SizeTypeValue(f[n - 1]))

\* std::size_t result: the sum of the SizeType counters.
numberOfAllocations(p) ==
    SumCounts([i \in ArenaIds |-> allocationsInArena(p, i)], numArenas)

numberOfBusyArenas(p) ==
    LET result == numArenas - p.freeListHead
    IN  IF result = 1 /\ allocationsInArena(p, p.activeArenaId) = 0
        THEN 0 ELSE result

reserveNextArena(p) ==
    IF p.freeListHead = 0
    THEN [ok |-> FALSE, pool |-> p]
    ELSE LET h == p.freeListHead - 1
             id == p.freeList[h]
         IN  [ok |-> TRUE,
              pool |-> [p EXCEPT !.freeListHead = h,
                                 !.bytesLeft = arenaSize,
                                 !.activeArenaId = id,
                                 !.data = Ptr(0, arenaSize * (id + 1))]]

initializeArenas ==
    reserveNextArena(
        [data |-> Null,
         bytesLeft |-> 0,
         activeArenaId |-> 0,
         freeListHead |-> numArenas,
         freeList |-> [i \in ArenaIds |-> numArenas - 1 - i],
         numAllocationsInArena |-> [i \in ArenaIds |-> 0]]).pool

resetActiveArena(p) ==
    [p EXCEPT !.bytesLeft = arenaSize,
              !.data = Ptr(0, arenaSize * (p.activeArenaId + 1)),
              !.numAllocationsInArena[p.activeArenaId] = 0]

releaseArena(p, arenaId) ==
    [p EXCEPT !.freeList[p.freeListHead] = arenaId,
              !.freeListHead = p.freeListHead + 1,
              !.numAllocationsInArena[arenaId] = 0]

\* A faulty do_allocate_details that taps the next arena without asking whether
\* the block can fit in an arena at all.
RECURSIVE do_allocate_details_NoSizeTest(_, _, _)
do_allocate_details_NoSizeTest(p, bytes, alignment) ==
    LET ptrWrap == p.data.wrap + bytes.hi
        ptrOff == p.data.off - bytes.lo
        alignmentOffset == (arenaDataAddr + ptrOff) % alignment
        numBytesNeeded == SizeTypeOf(bytes) + alignmentOffset
    IN  IF SizeTypeGreater(numBytesNeeded, p.bytesLeft)
        THEN IF reserveNextArena(p).ok
             THEN do_allocate_details_NoSizeTest(reserveNextArena(p).pool, bytes, alignment)
             ELSE [pool |-> p, result |-> Null]
        ELSE LET q == Ptr(ptrWrap, ptrOff - alignmentOffset)
             IN  [pool |-> [p EXCEPT !.data = q,
                                     !.bytesLeft = p.bytesLeft - numBytesNeeded,
                                     !.numAllocationsInArena[p.activeArenaId] = @ + 1],
                  result |-> q]

RECURSIVE do_allocate_details(_, _, _)
do_allocate_details(p, bytes, alignment) ==
    LET ptrWrap == p.data.wrap + bytes.hi
        ptrOff == p.data.off - bytes.lo
        alignmentOffset == (arenaDataAddr + ptrOff) % alignment
        numBytesNeeded == SizeTypeOf(bytes) + alignmentOffset
    IN  IF SizeTypeGreater(numBytesNeeded, p.bytesLeft)
        THEN IF WLeq(bytes, W(0, arenaSize)) /\ reserveNextArena(p).ok
             THEN do_allocate_details(reserveNextArena(p).pool, bytes, alignment)
             ELSE [pool |-> p, result |-> Null]
        ELSE LET q == Ptr(ptrWrap, ptrOff - alignmentOffset)
             IN  [pool |-> [p EXCEPT !.data = q,
                                     !.bytesLeft = p.bytesLeft - numBytesNeeded,
                                     !.numAllocationsInArena[p.activeArenaId] = @ + 1],
                  result |-> q]

NoExc == [kind |-> "none", a |-> W(0, 0), b |-> 0]
AllocateTooLargeBlock(bytesNeeded, bytesAvailable) ==
    [kind |-> "AllocateTooLargeBlock", a |-> bytesNeeded, b |-> bytesAvailable]
OutOfFreeArenas(n) == [kind |-> "OutOfFreeArenas", a |-> W(0, 0), b |-> n]
ArenaMemoryResourceCorruption == [kind |-> "ArenaMemoryResourceCorruption", a |-> W(0, 0), b |-> 0]

do_allocate(p, bytes, alignment) ==
    IF bytes = W(0, 0)
    THEN [pool |-> p, result |-> Null, exc |-> NoExc]
    ELSE LET r == do_allocate_details(p, bytes, alignment)
         IN  IF exceptionsEnabled /\ r.result = Null
             THEN IF WLess(W(0, arenaSize), bytes)
                  THEN [pool |-> r.pool, result |-> Null,
                        exc |-> AllocateTooLargeBlock(bytes, arenaSize)]
                  ELSE [pool |-> r.pool, result |-> Null,
                        exc |-> OutOfFreeArenas(numArenas)]
             ELSE [pool |-> r.pool, result |-> r.result, exc |-> NoExc]

\* SizeType(ptrAsInteger - dataAsInteger) / arenaSize.  The low 32 bits of
\* off - wrap*2^32 are off modulo 2^32; a negative off stands for 2^32 + off,
\* whose quotient is far beyond numArenas.
ArenaIdOf(ptr) == IF ptr.off < 0 THEN numArenas ELSE ptr.off \div arenaSize

do_deallocate(p, ptr) ==
    LET arenaId == ArenaIdOf(ptr)
    IN  IF exceptionsEnabled /\ arenaId >= numArenas
        THEN [pool |-> p, exc |-> ArenaMemoryResourceCorruption]
        ELSE LET numAllocs == p.numAllocationsInArena[arenaId] - 1
                 p1 == [p EXCEPT !.numAllocationsInArena[arenaId] = numAllocs]
             IN  [pool |-> IF numAllocs = 0
                           THEN IF arenaId = p.activeArenaId
                                THEN resetActiveArena(p1)
                                ELSE releaseArena(p1, arenaId)
                           ELSE p1,
                  exc |-> NoExc]

(***************************************************************************)
(* SynchronizedArenaResourceBase                                           *)
(***************************************************************************)
SYNC_NUM_ARENAS == 2
SYNC_ARENA_BINS == 2
NumThreads == 2

syncNumArenas == SYNC_NUM_ARENAS
syncArenaSize == SYNC_ARENA_BINS * binSize
SyncArenaIds == 0 .. (syncNumArenas - 1)
Threads == 1 .. NumThreads

\* SizeType difference of the two atomic counters.
SyncAllocationsInArena(p, arenaId) ==
    p.numAllocationsInArena[arenaId] - p.numDeallocationsInArena[arenaId]

SyncNumberOfAllocations(p) ==
    SumCounts([i \in SyncArenaIds |-> SyncAllocationsInArena(p, i)], syncNumArenas)

SyncNumberOfBusyArenas(p) ==
    LET result == syncNumArenas - p.freeListHead
    IN  IF result = 1 /\ SyncAllocationsInArena(p, p.activeArenaId) = 0
        THEN 0 ELSE result

SyncReserveNextArena(p) ==
    IF p.freeListHead = 0
    THEN [ok |-> FALSE, pool |-> p]
    ELSE LET h == p.freeListHead - 1
             id == p.freeList[h]
         IN  [ok |-> TRUE,
              pool |-> [p EXCEPT !.freeListHead = h,
                                 !.activeArenaId = id,
                                 !.data = Ptr(0, id * syncArenaSize),
                                 !.bytesReserved = 0]]

SyncInitializeArenas ==
    SyncReserveNextArena(
        [data |-> Null,
         bytesReserved |-> 0,
         activeArenaId |-> 0,
         freeListHead |-> syncNumArenas,
         freeList |-> [i \in SyncArenaIds |-> syncNumArenas - 1 - i],
         numAllocationsInArena |-> [i \in SyncArenaIds |-> 0],
         numDeallocationsInArena |-> [i \in SyncArenaIds |-> 0]]).pool

\* resetActiveArena up to and including the store to _numDeallocationsInArena.
SyncResetActiveArena(p) ==
    [p EXCEPT !.data = Ptr(0, p.activeArenaId * syncArenaSize),
              !.bytesReserved = 0,
              !.numDeallocationsInArena[p.activeArenaId] = 0]

\* releaseArena up to and including the store to _numDeallocationsInArena.
SyncReleaseArena(p, arenaId) ==
    [p EXCEPT !.freeList[p.freeListHead] = arenaId,
              !.freeListHead = p.freeListHead + 1,
              !.numDeallocationsInArena[arenaId] = 0]

\* A faulty reset/release that leaves _numAllocationsInArena[arenaId] as it is.
SyncStoreAllocationsZero_Skipped(p, arenaId) == p

\* The last store of both: _numAllocationsInArena[arenaId] = 0.
SyncStoreAllocationsZero(p, arenaId) ==
    [p EXCEPT !.numAllocationsInArena[arenaId] = 0]

RECURSIVE SyncDoAllocateDetails(_, _)
SyncDoAllocateDetails(p, bytes) ==
    LET numReservedBytes == p.bytesReserved + bytes
    IN  IF numReservedBytes > syncArenaSize
        THEN IF SyncReserveNextArena(p).ok
             THEN SyncDoAllocateDetails(SyncReserveNextArena(p).pool, bytes)
             ELSE [pool |-> p, result |-> Null]
        ELSE [pool |-> [p EXCEPT !.bytesReserved = numReservedBytes,
                                 !.data = Ptr(p.data.wrap, p.data.off + bytes),
                                 !.numAllocationsInArena[p.activeArenaId] = @ + 1],
              result |-> p.data]

\* numBinsForData * binSize: bytes rounded up to a multiple of binSize (2^32 is one).
SyncNumBytesNeeded(bytes) == W(bytes.hi, ((bytes.lo + binSize - 1) \div binSize) * binSize)

\* do_allocate before _mtx.lock(): TRUE when it returns nullptr at once.
SyncReturnsEarly(bytes) ==
    bytes = W(0, 0) \/ WLess(W(0, syncArenaSize), SyncNumBytesNeeded(bytes))

\* do_allocate after _mtx.unlock(): what is thrown for this result.
SyncAllocateOutcome(result, numBytesNeeded) ==
    IF exceptionsEnabled /\ result = Null
    THEN IF WLess(W(0, syncArenaSize), numBytesNeeded)
         THEN AllocateTooLargeBlock(numBytesNeeded, syncArenaSize)
         ELSE OutOfFreeArenas(syncNumArenas)
    ELSE NoExc

SyncArenaIdOf(ptr) == IF ptr.off < 0 THEN syncNumArenas ELSE ptr.off \div syncArenaSize

(***************************************************************************)
(* Clients                                                                 *)
(***************************************************************************)
\* What the client holds for one allocation.  id tells apart two allocations that
\* were given the same address for the same byte count.
LiveRecord(ptr, bytes, arena) ==
    LET same == {r \in live : r.ptr = ptr /\ r.bytes = bytes /\ r.arena = arena}
    IN  [id |-> CHOOSE i \in 1 .. (MaxLive + 1) : \A r \in same : r.id # i,
         ptr |-> ptr, bytes |-> bytes, arena |-> arena]

NoLocals == [arenaId |-> 0, numDeallocs |-> 0, numAllocs |-> 0, bytes |-> W(0, 0)]
\* The outcome of a call: what it threw, what it returned, and the byte count
\* asked for when no pointer came back (a returned pointer's is in live).
Outcome(op, bytes, exc, result) ==
    [op |-> op, exc |-> exc,
     ret |-> IF exc # NoExc THEN "throw" ELSE IF result = Null THEN "null" ELSE "pointer",
     req |-> IF op = "allocate" /\ result = Null THEN bytes ELSE W(0, 0)]

InitCommon ==
    /\ arenaDataAddr \in BaseAddrs
    /\ live = {}
    /\ netAllocs = 0
    /\ hugeAllocs = 0
    /\ mtx = 0
    /\ pc = [t \in Threads |-> "idle"]
    /\ loc = [t \in Threads |-> NoLocals]

(***************************************************************************)
(* The client of the unsynchronized engine: one call at a time.            *)
(***************************************************************************)
InitUnsync ==
    /\ InitCommon
    /\ pool = initializeArenas
    /\ last = Outcome("construct", W(0, 0), NoExc, Null)

Allocate(bytes, alignment) ==
    LET r == do_allocate(pool, bytes, alignment)
    IN  /\ (r.result # Null) => (Cardinality(live) < MaxLive)
        /\ (r.result # Null /\ bytes.hi # 0) => (hugeAllocs < MaxHuge)
        /\ hugeAllocs' = IF r.result = Null \/ bytes.hi = 0 THEN hugeAllocs ELSE hugeAllocs + 1
        /\ pool' = r.pool
        /\ live' = IF r.result = Null THEN live
                   ELSE live \cup {LiveRecord(r.result, bytes, r.pool.activeArenaId)}
        /\ netAllocs' = IF r.result = Null THEN netAllocs ELSE netAllocs + 1
        /\ last' = Outcome("allocate", bytes, r.exc, r.result)
        /\ UNCHANGED <<arenaDataAddr, mtx, pc, loc>>

Deallocate(rec) ==
    LET r == do_deallocate(pool, rec.ptr)
    IN  /\ pool' = r.pool
        /\ live' = live \ {rec}
        /\ netAllocs' = IF r.exc = NoExc THEN netAllocs - 1 ELSE netAllocs
        /\ last' = Outcome("deallocate", rec.bytes, r.exc, rec.ptr)
        /\ UNCHANGED <<arenaDataAddr, hugeAllocs, mtx, pc, loc>>

NextUnsync ==
    \/ \E bytes \in ByteCounts, alignment \in Alignments : Allocate(bytes, alignment)
    \/ \E rec \in live : Deallocate(rec)

SpecUnsync == InitUnsync /\ [][NextUnsync]_vars

(***************************************************************************)
(* A client of the unsynchronized engine that holds at most one block: it  *)
(* allocates at most arenaSize bytes and deallocates the pointer it got    *)
(* before it allocates again.                                              *)
(***************************************************************************)
AlternatingByteCounts == {W(0, b) : b \in 0 .. arenaSize}

\* As BaseAddrs, and a storage aligned to max_align_t but not beyond (dynamic
\* flavor on new_delete_resource()).
AlternatingBaseAddrs == BaseAddrs \cup {binSize}

InitAlternating ==
    /\ arenaDataAddr \in AlternatingBaseAddrs
    /\ live = {}
    /\ netAllocs = 0
    /\ hugeAllocs = 0
    /\ mtx = 0
    /\ pc = [t \in Threads |-> "idle"]
    /\ loc = [t \in Threads |-> NoLocals]
    /\ pool = initializeArenas
    /\ last = Outcome("construct", W(0, 0), NoExc, Null)

NextAlternating ==
    \/ /\ live = {}
       /\ \E bytes \in AlternatingByteCounts, alignment \in Alignments :
              Allocate(bytes, alignment)
    \/ \E rec \in live : Deallocate(rec)

SpecAlternating == InitAlternating /\ [][NextAlternating]_vars

(***************************************************************************)
(* The clients of the synchronized engine: NumThreads threads, each step   *)
(* one access to shared memory.                                            *)
(***************************************************************************)
SyncByteCounts ==
    {W(0, b) : b \in {0, binSize \div 2, binSize, syncArenaSize, syncArenaSize + 1}}
        \cup {W(1, binSize \div 2)}

InitSync ==
    /\ InitCommon
    /\ pool = SyncInitializeArenas
    /\ last = [t \in Threads |-> Outcome("construct", W(0, 0), NoExc, Null)]

\* do_allocate returning nullptr before the mutex is taken.
SyncAllocateEarly(t, bytes, alignment) ==
    /\ pc[t] = "idle"
    /\ SyncReturnsEarly(bytes)
    /\ last' = [last EXCEPT ![t] = Outcome("allocate", bytes, NoExc, Null)]
    /\ UNCHANGED <<arenaDataAddr, pool, live, netAllocs, hugeAllocs, mtx, pc, loc>>

\* _mtx.lock()
SyncAllocateLock(t, bytes, alignment) ==
    /\ pc[t] = "idle"
    /\ ~SyncReturnsEarly(bytes)
    /\ Cardinality(live) + Cardinality({u \in Threads : pc[u] = "alloc_locked"}) < MaxLive
    /\ mtx = 0
    /\ mtx' = t
    /\ pc' = [pc EXCEPT ![t] = "alloc_locked"]
    /\ loc' = [loc EXCEPT ![t] = [NoLocals EXCEPT !.bytes = bytes]]
    /\ UNCHANGED <<arenaDataAddr, pool, live, last, netAllocs, hugeAllocs>>

\* do_allocate_details(numBytesNeeded); _mtx.unlock(); throw or return.
SyncAllocateDetails(t) ==
    /\ pc[t] = "alloc_locked"
    /\ LET numBytesNeeded == SyncNumBytesNeeded(loc[t].bytes)
           r == SyncDoAllocateDetails(pool, numBytesNeeded.lo)
           exc == SyncAllocateOutcome(r.result, numBytesNeeded)
       IN  /\ pool' = r.pool
           /\ live' = IF r.result = Null THEN live
                      ELSE live \cup {LiveRecord(r.result, loc[t].bytes, r.pool.activeArenaId)}
           /\ netAllocs' = IF r.result = Null THEN netAllocs ELSE netAllocs + 1
           /\ last' = [last EXCEPT ![t] = Outcome("allocate", loc[t].bytes, exc, r.result)]
    /\ mtx' = 0
    /\ pc' = [pc EXCEPT ![t] = "idle"]
    /\ loc' = [loc EXCEPT ![t] = NoLocals]
    /\ UNCHANGED <<arenaDataAddr, hugeAllocs>>

\* The arena id, the throw, and _numDeallocationsInArena[arenaId].fetch_add(1) + 1.
SyncDeallocateFetchAdd(t, rec) ==
    /\ pc[t] = "idle"
    /\ live' = live \ {rec}
    /\ LET arenaId == SyncArenaIdOf(rec.ptr)
       IN  IF exceptionsEnabled /\ arenaId >= syncNumArenas
           THEN /\ last' = [last EXCEPT ![t] =
                               Outcome("deallocate", rec.bytes, ArenaMemoryResourceCorruption, rec.ptr)]
                /\ UNCHANGED <<pool, pc, loc>>
           ELSE /\ pool' = [pool EXCEPT !.numDeallocationsInArena[arenaId] = @ + 1]
                /\ loc' = [loc EXCEPT ![t] =
                              [NoLocals EXCEPT !.arenaId = arenaId,
                                               !.numDeallocs =
                                                   pool.numDeallocationsInArena[arenaId] + 1]]
                /\ pc' = [pc EXCEPT ![t] = "dealloc_load"]
                /\ UNCHANGED last
    /\ UNCHANGED <<arenaDataAddr, netAllocs, hugeAllocs, mtx>>

\* A faulty do_deallocate that goes for the mutex whatever the counters say.
SyncDeallocateLoad_AlwaysLock(t) ==
    /\ pc[t] = "dealloc_load"
    /\ loc' = [loc EXCEPT ![t].numAllocs = pool.numAllocationsInArena[loc[t].arenaId]]
    /\ pc' = [pc EXCEPT ![t] = "dealloc_lock"]
    /\ UNCHANGED <<arenaDataAddr, pool, live, last, netAllocs, hugeAllocs, mtx>>

\* SizeType numAllocs = _numAllocationsInArena[arenaId]; if (numAllocs == numDeallocs)
SyncDeallocateLoad(t) ==
    /\ pc[t] = "dealloc_load"
    /\ LET numAllocs == pool.numAllocationsInArena[loc[t].arenaId]
       IN  IF numAllocs = loc[t].numDeallocs
           THEN /\ loc' = [loc EXCEPT ![t].numAllocs = numAllocs]
                /\ pc' = [pc EXCEPT ![t] = "dealloc_lock"]
                /\ UNCHANGED <<last, netAllocs>>
           ELSE /\ loc' = [loc EXCEPT ![t] = NoLocals]
                /\ pc' = [pc EXCEPT ![t] = "idle"]
                /\ last' = [last EXCEPT ![t] = Outcome("deallocate", W(0, 0), NoExc, Null)]
                /\ netAllocs' = netAllocs - 1
    /\ UNCHANGED <<arenaDataAddr, pool, live, hugeAllocs, mtx>>

\* A faulty do_deallocate that goes on to the double check without the mutex.
SyncDeallocateLock_NoLock(t) ==
    /\ pc[t] = "dealloc_lock"
    /\ pc' = [pc EXCEPT ![t] = "dealloc_locked"]
    /\ UNCHANGED <<arenaDataAddr, pool, live, last, netAllocs, hugeAllocs, loc, mtx>>

\* const std::lock_guard<std::mutex> lock(_mtx);
SyncDeallocateLock(t) ==
    /\ pc[t] = "dealloc_lock"
    /\ mtx = 0
    /\ mtx' = t
    /\ pc' = [pc EXCEPT ![t] = "dealloc_locked"]
    /\ UNCHANGED <<arenaDataAddr, pool, live, last, netAllocs, hugeAllocs, loc>>

\* A faulty double check that trusts the counters read before the mutex was taken.
arenaIsVacant_NoRecheck(p, arenaId, numAllocs) == TRUE

\* if (numAllocs == _numAllocationsInArena[arenaId] &&
\*     numAllocs == _numDeallocationsInArena[arenaId])
arenaIsVacant(p, arenaId, numAllocs) ==
    /\ numAllocs = p.numAllocationsInArena[arenaId]
    /\ numAllocs = p.numDeallocationsInArena[arenaId]

\* The double check under the mutex, and the reset or release up to the store
\* to _numDeallocationsInArena.
SyncDeallocateCheck(t) ==
    /\ pc[t] = "dealloc_locked"
    /\ IF arenaIsVacant(pool, loc[t].arenaId, loc[t].numAllocs)
       THEN /\ pool' = IF loc[t].arenaId = pool.activeArenaId
                       THEN SyncResetActiveArena(pool)
                       ELSE SyncReleaseArena(pool, loc[t].arenaId)
            /\ pc' = [pc EXCEPT ![t] = "dealloc_zero"]
            /\ UNCHANGED <<mtx, loc, last, netAllocs>>
       ELSE /\ mtx' = 0
            /\ pc' = [pc EXCEPT ![t] = "idle"]
            /\ loc' = [loc EXCEPT ![t] = NoLocals]
            /\ last' = [last EXCEPT ![t] = Outcome("deallocate", W(0, 0), NoExc, Null)]
            /\ netAllocs' = netAllocs - 1
            /\ UNCHANGED pool
    /\ UNCHANGED <<arenaDataAddr, live, hugeAllocs>>

\* The store to _numAllocationsInArena, and the lock_guard's unlock.
SyncDeallocateZero(t) ==
    /\ pc[t] = "dealloc_zero"
    /\ pool' = SyncStoreAllocationsZero(pool, loc[t].arenaId)
    /\ mtx' = 0
    /\ pc' = [pc EXCEPT ![t] = "idle"]
    /\ loc' = [loc EXCEPT ![t] = NoLocals]
    /\ last' = [last EXCEPT ![t] = Outcome("deallocate", W(0, 0), NoExc, Null)]
    /\ netAllocs' = netAllocs - 1
    /\ UNCHANGED <<arenaDataAddr, live, hugeAllocs>>

NextSync ==
    \E t \in Threads :
        \/ \E bytes \in SyncByteCounts, alignment \in Alignments :
               SyncAllocateEarly(t, bytes, alignment)
        \/ \E bytes \in SyncByteCounts, alignment \in Alignments :
               SyncAllocateLock(t, bytes, alignment)
        \/ SyncAllocateDetails(t)
        \/ \E rec \in live : SyncDeallocateFetchAdd(t, rec)
        \/ SyncDeallocateLoad(t)
        \/ SyncDeallocateLock(t)
        \/ SyncDeallocateCheck(t)
        \/ SyncDeallocateZero(t)

SpecSync == InitSync /\ [][NextSync]_vars

(***************************************************************************)
(* StatisticsArenaResource: UnsynchronizedArenaResource<> (the dynamic     *)
(* flavor) with a map from returned addresses to byte counts.  Its pool    *)
(* record has the base's members and map, maxBusyArenas,                   *)
(* maxNumberOfAllocations, memory_resource (the upstream of the arena      *)
(* storage) and mapResource (the resource of _map's allocator).            *)
(***************************************************************************)
RuntimeError == [kind |-> "runtime_error", a |-> W(0, 0), b |-> 0]

\* The constructor's mr argument and std::pmr::get_default_resource() at
\* construction.
UpstreamArgs == {"nullptr", "mr"}
DefaultResources == {"new_delete_resource", "mr"}

Max(a, b) == IF a < b THEN b ELSE a

EmptyMap == [k \in {} |-> 0]
MapInsert(m, k, v) == [x \in (DOMAIN m) \cup {k} |-> IF x = k THEN v ELSE m[x]]
MapErase(m, k) == [x \in (DOMAIN m) \ {k} |-> m[x]]

\* The base constructor takes the storage from mr, or from new_delete_resource()
\* when mr is null.  _map is default-constructed, so its allocator holds
\* get_default_resource(); the move assignment _map = MapType(_memory_resource)
\* does not propagate the allocator of its right-hand side.
StatisticsArenaResource(mr, defaultResource) ==
    LET base == initializeArenas
    IN  [data |-> base.data,
         bytesLeft |-> base.bytesLeft,
         activeArenaId |-> base.activeArenaId,
         freeListHead |-> base.freeListHead,
         freeList |-> base.freeList,
         numAllocationsInArena |-> base.numAllocationsInArena,
         map |-> EmptyMap,
         maxBusyArenas |-> 0,
         maxNumberOfAllocations |-> 0,
         memory_resource |-> IF mr = "nullptr" THEN "new_delete_resource" ELSE mr,
         mapResource |-> defaultResource]

\* Allocations a resource holds for this object: the three vectors of the base
\* (_numAllocationsInArena, _freeList, _arenaData) and one node per map entry.
UpstreamAllocations(p, resource) ==
    (IF p.memory_resource = resource THEN 3 ELSE 0)
        + (IF p.mapResource = resource THEN Cardinality(DOMAIN p.map) ELSE 0)

StatsDoAllocate(p, bytes, alignment) ==
    LET r == do_allocate(p, bytes, alignment)
    IN  IF r.exc # NoExc
        THEN r
        ELSE LET m == MapInsert(r.pool.map, r.result, SizeTypeOf(bytes))
             IN  [pool |-> [r.pool EXCEPT
                               !.map = m,
                               !.maxBusyArenas = Max(@, numberOfBusyArenas(r.pool)),
                               !.maxNumberOfAllocations = Max(@, Cardinality(DOMAIN m))],
                  result |-> r.result,
                  exc |-> NoExc]

\* A faulty do_deallocate that does not look the address up before it erases.
StatsDoDeallocate_NoLookup(p, ptr, where) ==
    do_deallocate([p EXCEPT !.map = MapErase(p.map, ptr)], where)

\* where is the address of ptr relative to the storage (ptr itself unless ptr
\* is the null pointer).
StatsDoDeallocate(p, ptr, where) ==
    IF exceptionsEnabled /\ ptr \notin DOMAIN p.map
    THEN [pool |-> p, exc |-> RuntimeError]
    ELSE do_deallocate([p EXCEPT !.map = MapErase(p.map, ptr)], where)

\* SizeType keys in ascending order.
SizeTypeLess(a, b) == WLess(SizeTypeValue(a), SizeTypeValue(b))

histogram(m) ==
    [size \in {m[k] : k \in DOMAIN m} |-> Cardinality({k \in DOMAIN m : m[k] = size})]

\* The keys of a histogram as an ascending sequence.
RECURSIVE SortedKeys(_)
SortedKeys(keys) ==
    IF keys = {} THEN <<>>
    ELSE LET least == CHOOSE k \in keys : \A x \in keys : x = k \/ SizeTypeLess(k, x)
         IN  <<least>> \o SortedKeys(keys \ {least})

RECURSIVE SumFrequencies(_, _)
SumFrequencies(hist, keys) ==
    IF keys = {} THEN 0
    ELSE LET k == CHOOSE x \in keys : TRUE
         IN  hist[k] + SumFrequencies(hist, keys \ {k})

\* The while loop of percentile: the position of the iterator when it ends.
RECURSIVE PercentileLoop(_, _, _, _, _)
PercentileLoop(hist, order, it, accumulatedSum, upperLimit) ==
    IF accumulatedSum < upperLimit
    THEN PercentileLoop(hist, order, it + 1, accumulatedSum + hist[order[it]], upperLimit)
    ELSE it

\* Values that reading through std::prev(hist.cbegin()) may produce.
GarbageSizes == {0, binSize \div 2, arenaSize + 1}

\* percentile(pc) for pc = num/den in [0, 1]: the set of values the call may
\* return (one value unless the loop body never runs and the iterator before
\* begin() is dereferenced).
percentile(m, num, den) ==
    IF num = 0 THEN {0}
    ELSE LET hist == histogram(m)
             sum == SumFrequencies(hist, DOMAIN hist)
             upperLimit == (num * sum) \div den
             order == SortedKeys(DOMAIN hist)
             it == PercentileLoop(hist, order, 1, 0, upperLimit)
         IN  IF sum = 0 THEN {0}
             ELSE IF it = 1 THEN GarbageSizes \cup DOMAIN hist
             ELSE {order[it - 1]}

\* std::accumulate over the histogram with a binary operation whose first
\* parameter is std::size_t: the running double is truncated before each
\* addition.  The running value is kept as a numerator over numAllocs.
RECURSIVE MeanLoop(_, _, _, _, _)
MeanLoop(hist, order, it, init, numAllocs) ==
    IF it > Len(order) THEN init
    ELSE MeanLoop(hist, order, it + 1,
                  (init \div numAllocs) * numAllocs + order[it] * hist[order[it]],
                  numAllocs)

\* mean() as the fraction num/den.
mean(m) ==
    LET hist == histogram(m)
        numAllocs == SumFrequencies(hist, DOMAIN hist)
    IN  IF numAllocs = 0 THEN [num |-> 0, den |-> 1]
        ELSE [num |-> MeanLoop(hist, SortedKeys(DOMAIN hist), 1, 0, numAllocs),
              den |-> numAllocs]

(***************************************************************************)
(* The client of the statistics resource: one call at a time.  The storage *)
(* is aligned here (the unsynchronized engine's client covers the other    *)
(* case), and last keeps the call and what it threw.                       *)
(***************************************************************************)
\* Where the null pointer lies relative to the storage: below it, at a distance
\* whose low 32 bits are beyond the arenas.
NullPositions == {Ptr(1, 0 - AddrModulus - arenaDataAddr)}

\* Addresses a client may pass to deallocate without having them from allocate.
ForeignPointers == {Ptr(0, 0), Ptr(0, binSize \div 2), Ptr(0, numArenas * arenaSize)}

\* The requests of the statistics client: nothing, half an arena, an arena,
\* and 2^32 + 8 bytes; byte alignment and an alignment above max_align_t.
StatsByteCounts ==
    {W(0, 0), W(0, binSize \div 2), W(0, arenaSize), W(1, binSize \div 2)}
StatsAlignments == {1, 2 * binSize}

\* StatisticsArenaResource(numArenas, arenaSize): mr is left at its default,
\* and the program has not called std::pmr::set_default_resource.
InitStats ==
    /\ InitCommon
    /\ pool = StatisticsArenaResource("nullptr", "new_delete_resource")
    /\ arenaDataAddr = 0
    /\ last = Outcome("construct", W(0, 0), NoExc, Null)

StatsAllocate(bytes, alignment) ==
    LET r == StatsDoAllocate(pool, bytes, alignment)
    IN  /\ (r.result # Null) => (Cardinality(live) < MaxLive)
        /\ (r.result # Null /\ bytes.hi # 0) => (hugeAllocs < MaxHuge)
        /\ hugeAllocs' = IF r.result = Null \/ bytes.hi = 0 THEN hugeAllocs ELSE hugeAllocs + 1
        /\ pool' = r.pool
        /\ live' = IF r.result = Null THEN live
                   ELSE live \cup {LiveRecord(r.result, bytes, r.pool.activeArenaId)}
        /\ netAllocs' = IF r.result = Null THEN netAllocs ELSE netAllocs + 1
        /\ last' = Outcome("allocate", W(0, 0), r.exc, r.result)
        /\ UNCHANGED <<arenaDataAddr, mtx, pc, loc>>

\* deallocate of a pointer the client holds.
StatsDeallocate(rec) ==
    LET r == StatsDoDeallocate(pool, rec.ptr, rec.ptr)
    IN  /\ pool' = r.pool
        /\ live' = live \ {rec}
        /\ netAllocs' = IF r.exc = NoExc THEN netAllocs - 1 ELSE netAllocs
        /\ last' = Outcome("deallocate", W(0, 0), r.exc, rec.ptr)
        /\ UNCHANGED <<arenaDataAddr, hugeAllocs, mtx, pc, loc>>

\* deallocate of the null pointer that allocate(0) returned.
StatsDeallocateNull(where) ==
    LET r == StatsDoDeallocate(pool, Null, where)
    IN  /\ Null \in DOMAIN pool.map
        /\ pool' = r.pool
        /\ last' = Outcome("deallocate", W(0, 0), r.exc, Null)
        /\ UNCHANGED <<arenaDataAddr, live, netAllocs, hugeAllocs, mtx, pc, loc>>

\* deallocate of an address that is not live: freed before, or never returned.
StatsDeallocateForeign(ptr) ==
    LET r == StatsDoDeallocate(pool, ptr, ptr)
    IN  /\ \A rec \in live : rec.ptr # ptr
        /\ pool' = r.pool
        /\ last' = Outcome("deallocate", W(0, 0), r.exc, ptr)
        /\ UNCHANGED <<arenaDataAddr, live, netAllocs, hugeAllocs, mtx, pc, loc>>

NextStats ==
    \/ \E bytes \in StatsByteCounts, alignment \in StatsAlignments :
           StatsAllocate(bytes, alignment)
    \/ \E rec \in live : StatsDeallocate(rec)
    \/ \E where \in NullPositions : StatsDeallocateNull(where)
    \/ \E ptr \in ForeignPointers : StatsDeallocateForeign(ptr)

SpecStats == InitStats /\ [][NextStats]_vars

(***************************************************************************)
(* The same client with every choice of the constructor's mr, of the       *)
(* default resource in force at construction and of the address at which   *)
(* the upstream resource, asked for alignment 1, places the arena storage; *)
(* it requests nothing, half an arena and an arena, with byte alignment    *)
(* and with the alignment of max_align_t.                                  *)
(***************************************************************************)
UpstreamByteCounts == {W(0, 0), W(0, binSize \div 2), W(0, arenaSize)}
UpstreamAlignments == {1, binSize}

InitUpstreams ==
    /\ InitCommon
    /\ \E mr \in UpstreamArgs, defaultResource \in DefaultResources :
           pool = StatisticsArenaResource(mr, defaultResource)
    /\ last = Outcome("construct", W(0, 0), NoExc, Null)

NextUpstreams ==
    \/ \E bytes \in UpstreamByteCounts, alignment \in UpstreamAlignments :
           StatsAllocate(bytes, alignment)
    \/ \E rec \in live : StatsDeallocate(rec)
    \/ \E ptr \in ForeignPointers : StatsDeallocateForeign(ptr)

SpecUpstreams == InitUpstreams /\ [][NextUpstreams]_vars

(***************************************************************************)
(* Byte ranges                                                             *)
(***************************************************************************)
\* Addresses relative to storage_base, as 64-bit values.
RangeStart(r) == W(0 - r.ptr.wrap, r.ptr.off)
RangeEnd(r) == WAdd(RangeStart(r), r.bytes)
Overlap(r1, r2) ==
    WLess(RangeStart(r1), RangeEnd(r2)) /\ WLess(RangeStart(r2), RangeEnd(r1))
IsSmall(r) == r.bytes.hi = 0

InStorage(ptr, bytes, n, size) ==
    /\ ptr.wrap = 0
    /\ 0 <= ptr.off
    /\ bytes.hi = 0
    /\ ptr.off + bytes.lo <= n * size

Quiescent == \A t \in Threads : pc[t] = "idle"

\* C1: the byte ranges of any two live allocations of the unsynchronized
\* engine are disjoint.
C1_LiveRangesDisjoint ==
    \A r1, r2 \in live : (r1 # r2) => ~Overlap(r1, r2)

\* C1, as long as no request of 2^32 - 8 bytes or more has been served.
C1_DisjointBeforeTruncation == (hugeAllocs = 0) => C1_LiveRangesDisjoint

\* C2: in every reachable state of the unsynchronized engine, a pointer that
\* allocate(bytes, a) returns is a multiple of a and [p, p + bytes) lies in
\* the storage region.
C2_ReturnedPointerAlignedInStorage ==
    \A bytes \in ByteCounts, alignment \in Alignments :
        LET r == do_allocate(pool, bytes, alignment)
        IN  (r.result # Null) =>
                /\ AddrMod(r.result, alignment) = 0
                /\ InStorage(r.result, bytes, numArenas, arenaSize)

\* C2 for requests below 2^32 - 8, as long as none above has been served.
C2_AlignedInStorageBeforeTruncation ==
    \A bytes \in SmallByteCounts, alignment \in Alignments :
        LET r == do_allocate(pool, bytes, alignment)
        IN  (hugeAllocs = 0 /\ r.result # Null) =>
                /\ AddrMod(r.result, alignment) = 0
                /\ InStorage(r.result, bytes, numArenas, arenaSize)

\* C3: unsynchronized engine, only requests of at most S bytes were served:
\* once every returned pointer has been deallocated, numberOfAllocations()
\* and numberOfBusyArenas() are 0.
C3_DrainedPoolIsIdle ==
    (live = {} /\ hugeAllocs = 0) =>
        /\ numberOfAllocations(pool) = W(0, 0)
        /\ numberOfBusyArenas(pool) = 0

SyncArenaRestarted(a) ==
    /\ pool'.activeArenaId = a
    /\ pool'.bytesReserved = 0
    /\ pool'.data = Ptr(0, a * syncArenaSize)
    /\ (pool.activeArenaId # a \/ pool.bytesReserved # 0)

C6_SyncReturnedPointerAligned ==
    \A r \in live, alignment \in Alignments :
        /\ AddrMod(r.ptr, alignment) = 0
        /\ InStorage(r.ptr, r.bytes, syncNumArenas, syncArenaSize)

\* C7 (unsynchronized engine): numberOfAllocations() is the number of
\* non-null allocate returns minus the number of completed deallocate calls.
C7_NumberOfAllocationsIsNet ==
    numberOfAllocations(pool) = W(0, netAllocs)
\* C7 (unsynchronized engine), as long as no request of 2^32 - 8 bytes or more
\* has been served.
C7_NetBeforeTruncation == (hugeAllocs = 0) => C7_NumberOfAllocationsIsNet
\* C7 (synchronized engine, no call in progress).
C7_SyncNumberOfAllocationsIsNet ==
    Quiescent => SyncNumberOfAllocations(pool) = W(0, netAllocs)

\* Byte counts above S whose sum with any padding for the alignment stays
\* below 2^32.
TooLargeByteCounts ==
    {W(0, arenaSize + 1), W(0, 2 * arenaSize), W(0, numArenas * arenaSize + binSize),
     W(1, 0 - (binSize \div 2)), W(1, 0 - 2 * binSize), W(1, 0 - 4 * binSize)}

\* C8: unsynchronized engine: a request of more than S bytes, its byte count
\* plus padding below 2^32, throws AllocateTooLargeBlock(bytes, S), never
\* OutOfFreeArenas, and changes no member variable.
C8_TooLargeThrowsAndKeepsState ==
    \A bytes \in ByteCounts \cup TooLargeByteCounts, alignment \in Alignments :
        (WLess(W(0, arenaSize), bytes) /\ WLess(WAdd(bytes, W(0, alignment - 1)), W(1, 0))) =>
            LET r == do_allocate(pool, bytes, alignment)
            IN  /\ r.exc = AllocateTooLargeBlock(bytes, arenaSize)
                /\ r.result = Null
                /\ r.pool = pool
C8_Witness ==
    /\ last.op = "allocate"
    /\ last.exc = AllocateTooLargeBlock(W(0, arenaSize + 1), arenaSize)
    /\ pool.freeListHead = 0
    /\ \A a \in ArenaIds : \E r \in live : r.arena = a /\ IsSmall(r)

\* C9: synchronized engine: an allocate of more than S bytes throws
\* AllocateTooLargeBlock with bytesAvailable = S.
C9_SyncTooLargeThrows ==
    \A t \in Threads :
        (last[t].op = "allocate" /\ WLess(W(0, syncArenaSize), last[t].req)) =>
            /\ last[t].exc.kind = "AllocateTooLargeBlock"
            /\ last[t].exc.b = syncArenaSize

\* C10 (unsynchronized engine): an allocate of at most S bytes that throws
\* OutOfFreeArenas leaves every member variable as it was.
C10_ExhaustedKeepsState ==
    [][(last'.op = "allocate" /\ last'.exc.kind = "OutOfFreeArenas"
            /\ WLeq(last'.req, W(0, arenaSize)))
        => pool' = pool]_vars
\* C10 (synchronized engine).
C10_SyncExhaustedKeepsState ==
    [][\A t \in Threads :
          (pc[t] = "alloc_locked" /\ pc'[t] = "idle"
              /\ last'[t].exc.kind = "OutOfFreeArenas")
          => pool' = pool]_vars

\* The outcome of n successive allocations of arenaSize bytes from p: the
\* pool after them and whether all returned a pointer.
RECURSIVE AllocateArenas(_, _, _)
AllocateArenas(p, n, alignment) ==
    IF n = 0 THEN [pool |-> p, ok |-> TRUE]
    ELSE LET r == do_allocate(p, W(0, arenaSize), alignment)
         IN  IF r.result = Null THEN [pool |-> r.pool, ok |-> FALSE]
             ELSE AllocateArenas(r.pool, n - 1, alignment)

\* C11: in every reachable state of the unsynchronized engine without live
\* allocations, numArenas successive allocations of arenaSize bytes (alignment
\* at most max_align_t) succeed, numberOfBusyArenas() is then numArenas, and
\* one more allocation throws OutOfFreeArenas(numArenas).
C11_NoCapacityLost ==
    (live = {}) =>
        \A alignment \in {a \in Alignments : a <= binSize} :
            LET r == AllocateArenas(pool, numArenas, alignment)
            IN  /\ r.ok
                /\ numberOfBusyArenas(r.pool) = numArenas
                /\ do_allocate(r.pool, W(0, arenaSize), alignment).exc
                       = OutOfFreeArenas(numArenas)

\* C12: a client that alternates allocate (at most arenaSize bytes) with
\* deallocate of the pointer just returned sees numberOfBusyArenas() <= 1
\* after every call, and no arena is taken from the free list.
C12_AlternatingKeepsOneArena ==
    /\ numberOfBusyArenas(pool) <= 1
    /\ pool.freeListHead = numArenas - 1

\* Addresses outside [storage_base, storage_base + numArenas*arenaSize): just
\* below, just above, and 2^32 bytes away from a block in either direction.
OutsidePointers ==
    {Ptr(0, 0 - (binSize \div 2)), Ptr(0, numArenas * arenaSize),
     Ptr(0, numArenas * arenaSize + binSize),
     Ptr(0 - 1, binSize \div 2), Ptr(1, binSize \div 2)}

\* C13: deallocate of an address outside the storage region throws
\* ArenaMemoryResourceCorruption and changes no member variable.
C13_OutsideAddressThrows ==
    \A ptr \in OutsidePointers :
        LET r == do_deallocate(pool, ptr)
        IN  /\ r.exc = ArenaMemoryResourceCorruption
            /\ r.pool = pool
\* C13 for the addresses less than 2^32 away from the storage base.
C13_NearOutsideAddressThrows ==
    \A ptr \in {q \in OutsidePointers : q.wrap = 0} :
        LET r == do_deallocate(pool, ptr)
        IN  /\ r.exc = ArenaMemoryResourceCorruption
            /\ r.pool = pool

\* Addresses that are no key of the map.
NotInMap == {ptr \in ForeignPointers \cup OutsidePointers : ptr \notin DOMAIN pool.map}

C15_MapIsLiveAllocations ==
    /\ DOMAIN pool.map = {r.ptr : r \in live}
    /\ \A r \in live : SizeTypeValue(pool.map[r.ptr]) = r.bytes
    /\ W(0, Cardinality(DOMAIN pool.map)) = numberOfAllocations(pool)
    /\ (live = {}) => (pool.map = EmptyMap)
\* C15 without its last three parts, before any request of zero bytes or of
\* 2^32 - 8 bytes or more.
C15_KeysAreLivePointers ==
    (hugeAllocs = 0 /\ Null \notin DOMAIN pool.map)
        => (DOMAIN pool.map = {r.ptr : r \in live})

\* C16: statistics resource: maxBusyArenas is at least numberOfBusyArenas()
\* and maxNumberOfAllocations is at least the number of live allocations.
C16_MaximaBoundCurrent ==
    /\ pool.maxBusyArenas >= numberOfBusyArenas(pool)
    /\ pool.maxNumberOfAllocations >= Cardinality(live)
\* C16, its other half: no call decreases maxBusyArenas or
\* maxNumberOfAllocations.
C16_MaximaNeverDecrease ==
    [][/\ pool'.maxBusyArenas >= pool.maxBusyArenas
       /\ pool'.maxNumberOfAllocations >= pool.maxNumberOfAllocations]_vars

\* Arguments of percentile in (0, 1], as fractions.
Percents == {[num |-> 1, den |-> 10], [num |-> 1, den |-> 2],
             [num |-> 9, den |-> 10], [num |-> 1, den |-> 1]}

\* The number of entries of the map whose size is at most s.
CountUpTo(hist, s) ==
    SumFrequencies(hist, {k \in DOMAIN hist : ~ SizeTypeLess(s, k)})

\* s is the last entry of the histogram, in ascending order, that can be
\* included without the running total exceeding p * T.
LastIncluded(hist, s, p) ==
    LET T == SumFrequencies(hist, DOMAIN hist)
    IN  /\ s \in DOMAIN hist
        /\ CountUpTo(hist, s) * p.den <= p.num * T
        /\ \A k \in DOMAIN hist :
               SizeTypeLess(s, k) => CountUpTo(hist, k) * p.den > p.num * T

\* C17: statistics resource: with T >= 1 entries in the map and p in (0, 1],
\* percentile(p) returns the size of the last histogram entry that can be
\* included without the running total exceeding p * T, so that the number of
\* entries of that size or less is at most p * T.
C17_PercentileWithinLimit ==
    (pool.map # EmptyMap) =>
        \A p \in Percents : \A s \in percentile(pool.map, p.num, p.den) :
            LastIncluded(histogram(pool.map), s, p)
\* What percentile returns instead when p * T is 1 or more: the smallest size
\* whose running total reaches p * T rounded down.
C17_PercentileReachesRoundedLimit ==
    \A p \in Percents :
        LET hist == histogram(pool.map)
            T == SumFrequencies(hist, DOMAIN hist)
            upperLimit == (p.num * T) \div p.den
        IN  (upperLimit > 0) =>
                \A s \in percentile(pool.map, p.num, p.den) :
                    /\ s \in DOMAIN hist
                    /\ CountUpTo(hist, s) >= upperLimit
                    /\ \A k \in DOMAIN hist :
                           SizeTypeLess(k, s) => CountUpTo(hist, k) < upperLimit

\* The largest byte count among the live allocations.
LargestLive ==
    CHOOSE b \in {r.bytes : r \in live} : \A r \in live : WLeq(r.bytes, b)

\* C18: statistics resource: while an allocation is live, percentile(1) is the
\* largest byte size among the live allocations and percentile(0) is 0.
C18_PercentileBoundaries ==
    (live # {}) =>
        /\ \A s \in percentile(pool.map, 1, 1) : SizeTypeValue(s) = LargestLive
        /\ percentile(pool.map, 0, 1) = {0}
\* C18 as long as no request of 2^32 - 8 bytes or more has been served.
C18_BoundariesBeforeTruncation == (hugeAllocs = 0) => C18_PercentileBoundaries

\* The sum of the byte counts of a set of live allocations.
RECURSIVE SumBytes(_)
SumBytes(recs) ==
    IF recs = {} THEN W(0, 0)
    ELSE LET r == CHOOSE x \in recs : TRUE
         IN  WAdd(r.bytes, SumBytes(recs \ {r}))

\* The sum of size * frequency over the histogram.
RECURSIVE SumSizes(_, _)
SumSizes(hist, keys) ==
    IF keys = {} THEN 0
    ELSE LET k == CHOOSE x \in keys : TRUE
         IN  k * hist[k] + SumSizes(hist, keys \ {k})

\* C19: statistics resource: mean() is the sum of the byte sizes of the live
\* allocations divided by their number, and 0 when none is live.
C19_MeanIsSumOverCount ==
    LET m == mean(pool.map)
        sum == SumBytes(live)
    IN  IF live = {} THEN m.num = 0
        ELSE W(0, m.num * Cardinality(live)) = W(sum.hi * m.den, sum.lo * m.den)
\* C19 read on the entries of the map, whatever they are: mean() is the sum of
\* the mapped sizes divided by the number of entries.
C19_MeanOfMapEntries ==
    LET hist == histogram(pool.map)
        m == mean(pool.map)
    IN  (pool.map # EmptyMap) =>
            m.num * SumFrequencies(hist, DOMAIN hist) = SumSizes(hist, DOMAIN hist) * m.den
\* The same with at most two entries in the map.
C19_MeanOfTwoEntries ==
    (Cardinality(DOMAIN pool.map) <= 2) => C19_MeanOfMapEntries

\* C20: statistics resource: the nodes of the map come from an upstream
\* resource other than the one that holds the arena storage, so the
\* arena-storage upstream holds the base's three vectors and nothing else
\* whatever allocate and deallocate calls are made, and the map's upstream
\* holds an allocation while the map has entries.
C20_MapUpstreamIsSeparate ==
    /\ pool.mapResource # pool.memory_resource
    /\ UpstreamAllocations(pool, pool.memory_resource)
           = UpstreamAllocations(StatisticsArenaResource("mr", "new_delete_resource"), "mr")
    /\ (pool.map # EmptyMap) => (UpstreamAllocations(pool, pool.mapResource) >= 1)
\* C20 for the constructions in which the default resource at construction
\* is not the resource of the arena storage.
C20_SeparateWhenDefaultDiffers ==
    (pool.mapResource # pool.memory_resource)
        => /\ UpstreamAllocations(pool, pool.memory_resource)
                  = UpstreamAllocations(StatisticsArenaResource("mr", "new_delete_resource"), "mr")
           /\ (pool.map # EmptyMap) => (UpstreamAllocations(pool, pool.mapResource) >= 1)

(***************************************************************************)
(* A dynamic pool whose total size does not fit in SizeType                *)
(*                                                                         *)
(* UnsynchronizedArenaResource<0, 0>(numArenas, arenaSize) with arenas of  *)
(* 2^31 bytes.  All quantities of this section are in chunks of 2^29       *)
(* bytes: an arena is LARGE_ARENA_CHUNKS chunks, SizeType holds values     *)
(* below SizeTypeChunks chunks (2^32 bytes), and the off of a pointer is   *)
(* in chunks from _arenaData.data(), negative below it.  The storage is    *)
(* aligned and requests are whole chunks with byte alignment, so there is  *)
(* no alignment padding.                                                   *)
(***************************************************************************)
LARGE_NUM_ARENAS == 3
LARGE_ARENA_CHUNKS == 4
SizeTypeChunks == 8

LargeArenaIds == 0 .. (LARGE_NUM_ARENAS - 1)
LargeByteCounts == {1, LARGE_ARENA_CHUNKS \div 2, LARGE_ARENA_CHUNKS}

\* SizeType arithmetic in chunks.
ChunkSizeType(x) == x % SizeTypeChunks

\* _arenaData.size(): numArenas * arenaSize, a product of two SizeType values.
LargeStorageSize == ChunkSizeType(LARGE_NUM_ARENAS * LARGE_ARENA_CHUNKS)

\* _arenaData.data() + arenaSize() * (id + 1), the product taken in SizeType.
LargeArenaUpperBound(id) == ChunkSizeType(LARGE_ARENA_CHUNKS * (id + 1))

LargeReserveNextArena(p) ==
    IF p.freeListHead = 0
    THEN [ok |-> FALSE, pool |-> p]
    ELSE LET h == p.freeListHead - 1
             id == p.freeList[h]
         IN  [ok |-> TRUE,
              pool |-> [p EXCEPT !.freeListHead = h,
                                 !.bytesLeft = LARGE_ARENA_CHUNKS,
                                 !.activeArenaId = id,
                                 !.data = Ptr(0, LargeArenaUpperBound(id))]]

LargeInitializeArenas ==
    LargeReserveNextArena(
        [data |-> Null,
         bytesLeft |-> 0,
         activeArenaId |-> 0,
         freeListHead |-> LARGE_NUM_ARENAS,
         freeList |-> [i \in LargeArenaIds |-> LARGE_NUM_ARENAS - 1 - i],
         numAllocationsInArena |-> [i \in LargeArenaIds |-> 0]]).pool

LargeResetActiveArena(p) ==
    [p EXCEPT !.bytesLeft = LARGE_ARENA_CHUNKS,
              !.data = Ptr(0, LargeArenaUpperBound(p.activeArenaId)),
              !.numAllocationsInArena[p.activeArenaId] = 0]

LargeReleaseArena(p, arenaId) ==
    [p EXCEPT !.freeList[p.freeListHead] = arenaId,
              !.freeListHead = p.freeListHead + 1,
              !.numAllocationsInArena[arenaId] = 0]

RECURSIVE LargeDoAllocateDetails(_, _)
LargeDoAllocateDetails(p, bytes) ==
    LET ptrAsInteger == p.data.off - bytes
        numBytesNeeded == ChunkSizeType(bytes)
    IN  IF numBytesNeeded > p.bytesLeft
        THEN IF bytes <= LARGE_ARENA_CHUNKS /\ LargeReserveNextArena(p).ok
             THEN LargeDoAllocateDetails(LargeReserveNextArena(p).pool, bytes)
             ELSE [pool |-> p, result |-> Null]
        ELSE [pool |-> [p EXCEPT !.data = Ptr(0, ptrAsInteger),
                                 !.bytesLeft = p.bytesLeft - numBytesNeeded,
                                 !.numAllocationsInArena[p.activeArenaId] = @ + 1],
              result |-> Ptr(0, ptrAsInteger)]

LargeDoAllocate(p, bytes) ==
    LET r == LargeDoAllocateDetails(p, bytes)
    IN  IF exceptionsEnabled /\ r.result = Null
        THEN IF bytes > LARGE_ARENA_CHUNKS
             THEN [pool |-> r.pool, result |-> Null,
                   exc |-> AllocateTooLargeBlock(W(0, bytes), LARGE_ARENA_CHUNKS)]
             ELSE [pool |-> r.pool, result |-> Null,
                   exc |-> OutOfFreeArenas(LARGE_NUM_ARENAS)]
        ELSE [pool |-> r.pool, result |-> r.result, exc |-> NoExc]

\* SizeType(ptrAsInteger - dataAsInteger) / arenaSize.
LargeArenaIdOf(ptr) == ChunkSizeType(ptr.off) \div LARGE_ARENA_CHUNKS

\* The counters are SizeType: 0 - 1 is kept as the representative -1.
LargeDoDeallocate(p, ptr) ==
    LET arenaId == LargeArenaIdOf(ptr)
    IN  IF exceptionsEnabled /\ arenaId >= LARGE_NUM_ARENAS
        THEN [pool |-> p, exc |-> ArenaMemoryResourceCorruption]
        ELSE LET numAllocs == p.numAllocationsInArena[arenaId] - 1
                 p1 == [p EXCEPT !.numAllocationsInArena[arenaId] = numAllocs]
             IN  [pool |-> IF numAllocs = 0
                           THEN IF arenaId = p.activeArenaId
                                THEN LargeResetActiveArena(p1)
                                ELSE LargeReleaseArena(p1, arenaId)
                           ELSE p1,
                  exc |-> NoExc]

InitLarge ==
    /\ InitCommon
    /\ arenaDataAddr = 0
    /\ pool = LargeInitializeArenas
    /\ last = Outcome("construct", W(0, 0), NoExc, Null)

LargeAllocate(bytes) ==
    LET r == LargeDoAllocate(pool, bytes)
    IN  /\ (r.result # Null) => (Cardinality(live) < MaxLive)
        /\ pool' = r.pool
        /\ live' = IF r.result = Null THEN live
                   ELSE live \cup {LiveRecord(r.result, bytes, r.pool.activeArenaId)}
        /\ netAllocs' = IF r.result = Null THEN netAllocs ELSE netAllocs + 1
        /\ last' = Outcome("allocate", W(0, 0), r.exc, r.result)
        /\ UNCHANGED <<arenaDataAddr, hugeAllocs, mtx, pc, loc>>

LargeDeallocate(rec) ==
    LET r == LargeDoDeallocate(pool, rec.ptr)
    IN  /\ pool' = r.pool
        /\ live' = live \ {rec}
        /\ netAllocs' = IF r.exc = NoExc THEN netAllocs - 1 ELSE netAllocs
        /\ last' = Outcome("deallocate", W(0, 0), r.exc, rec.ptr)
        /\ UNCHANGED <<arenaDataAddr, hugeAllocs, mtx, pc, loc>>

NextLarge ==
    \/ \E bytes \in LargeByteCounts : LargeAllocate(bytes)
    \/ \E rec \in live : LargeDeallocate(rec)

SpecLarge == InitLarge /\ [][NextLarge]_vars

\* C21: with numArenas and arenaSize in the range of SizeType and their
\* product beyond it, the bump pointer of the active arena lies in that
\* arena's slice of the storage, and the arena that deallocate derives from a
\* live pointer is the arena the pointer was allocated from.
C21_LargePoolKeepsArenasApart ==
    /\ pool.data.off >= LARGE_ARENA_CHUNKS * pool.activeArenaId
    /\ pool.data.off <= LARGE_ARENA_CHUNKS * (pool.activeArenaId + 1)
    /\ \A r \in live : LargeArenaIdOf(r.ptr) = r.arena

\* C22: unsynchronized engine: every request of more than S bytes, whatever
\* its size_t value, returns no pointer and changes no member variable.
C22_EveryTooLargeRequestRejected ==
    \A bytes \in ByteCounts \cup TooLargeByteCounts, alignment \in Alignments :
        WLess(W(0, arenaSize), bytes) =>
            LET r == do_allocate(pool, bytes, alignment)
            IN  /\ r.result = Null
                /\ r.pool = pool

\* C23 (unsynchronized engine): numberOfBusyArenas() is the number of arenas
\* with a live allocation, and lies in 0 .. N.
C23_BusyArenasAreNonEmptyArenas ==
    /\ numberOfBusyArenas(pool)
           = Cardinality({a \in ArenaIds : allocationsInArena(pool, a) # 0})
    /\ numberOfBusyArenas(pool) \in 0 .. numArenas
\* C23 (synchronized engine, the mutex free for the call to take).
C23_SyncBusyArenasAreNonEmptyArenas ==
    (mtx = 0) =>
        /\ SyncNumberOfBusyArenas(pool)
               = Cardinality({a \in SyncArenaIds : SyncAllocationsInArena(pool, a) # 0})
        /\ SyncNumberOfBusyArenas(pool) \in 0 .. syncNumArenas
\* C23, the part about the range alone.
C23_BusyArenasInRange == numberOfBusyArenas(pool) \in 0 .. numArenas

(***************************************************************************)
(* Construction of the dynamic flavor                                      *)
(*                                                                         *)
(* A program constructs one dynamic pool from numArenas and arenaSize and, *)
(* if it got an unsynchronized one, allocates from it with byte alignment  *)
(* and deallocates.  The build decides what the constructor's checks do:   *)
(* assert is empty under NDEBUG, and the statistics constructor's throw    *)
(* is compiled only when exceptions are enabled.  Here the pool record     *)
(* carries the members _numArenas and _arenaSize, the build, and           *)
(* constructed: "no" before the constructor runs, "aborted" when an        *)
(* assert stopped the program, "threw" when the constructor threw, "yes"   *)
(* when the object exists.                                                 *)
(***************************************************************************)
Flavors == {"unsynchronized", "synchronized", "statistics"}
Builds == [ndebug : BOOLEAN, exceptions : BOOLEAN]
\* No arena and two arenas; half of alignof(std::max_align_t) and all of it.
CtorNumArenas == {0, 2}
CtorArenaSizes == {binSize \div 2, binSize}
CtorByteCounts == {binSize \div 2, binSize}
\* What _bytesLeft may hold when initializeArenas found no arena to reserve
\* and left _data, _bytesLeft and _activeArenaId as they were.
IndeterminateBytesLeft == {0, binSize}

ValidGeometry(n, s) == n > 0 /\ s % binSize = 0

CtorReserveNextArena(p) ==
    IF p.freeListHead = 0
    THEN [ok |-> FALSE, pool |-> p]
    ELSE LET h == p.freeListHead - 1
             id == p.freeList[h]
         IN  [ok |-> TRUE,
              pool |-> [p EXCEPT !.freeListHead = h,
                                 !.bytesLeft = p.arenaSize,
                                 !.activeArenaId = id,
                                 !.data = Ptr(0, p.arenaSize * (id + 1))]]

\* The members after the constructor's body, for the given indeterminate
\* value of _bytesLeft.
CtorInitializeArenas(flavor, n, s, build, garbage) ==
    CtorReserveNextArena(
        [constructed |-> "yes", flavor |-> flavor, numArenas |-> n, arenaSize |-> s,
         build |-> build,
         data |-> Ptr(0, 0),
         bytesLeft |-> garbage,
         activeArenaId |-> 0,
         freeListHead |-> n,
         freeList |-> [i \in 0 .. (n - 1) |-> n - 1 - i],
         numAllocationsInArena |-> [i \in 0 .. (n - 1) |-> 0]]).pool

NotConstructed(how, build) ==
    [constructed |-> how, flavor |-> "none", numArenas |-> 0, arenaSize |-> 0,
     build |-> build, data |-> Null, bytesLeft |-> 0, activeArenaId |-> 0,
     freeListHead |-> 0, freeList |-> <<>>, numAllocationsInArena |-> <<>>]

\* The constructors of UnsynchronizedArenaResource<0, 0>,
\* SynchronizedArenaResource<0, 0> and StatisticsArenaResource (whose base
\* constructor, with its asserts, runs first).
DynamicConstructor(flavor, n, s, build, garbage) ==
    IF ~ build.ndebug /\ ~ ValidGeometry(n, s)
    THEN NotConstructed("aborted", build)
    ELSE IF flavor = "statistics" /\ build.exceptions /\ ~ ValidGeometry(n, s)
    THEN NotConstructed("threw", build)
    ELSE CtorInitializeArenas(flavor, n, s, build, garbage)

\* A counter outside the vector: the increment writes past its end and the
\* vector is as before.
CtorCount(p, id) ==
    IF id \in DOMAIN p.numAllocationsInArena
    THEN [p EXCEPT !.numAllocationsInArena[id] = @ + 1]
    ELSE p

RECURSIVE CtorDoAllocateDetails(_, _)
CtorDoAllocateDetails(p, bytes) ==
    IF bytes > p.bytesLeft
    THEN IF bytes <= p.arenaSize /\ CtorReserveNextArena(p).ok
         THEN CtorDoAllocateDetails(CtorReserveNextArena(p).pool, bytes)
         ELSE [pool |-> p, result |-> Null]
    ELSE LET q == Ptr(0, p.data.off - bytes)
         IN  [pool |-> CtorCount([p EXCEPT !.data = q, !.bytesLeft = p.bytesLeft - bytes],
                                 p.activeArenaId),
              result |-> q]

CtorDoAllocate(p, bytes) ==
    LET r == CtorDoAllocateDetails(p, bytes)
    IN  IF p.build.exceptions /\ r.result = Null
        THEN IF bytes > p.arenaSize
             THEN [pool |-> r.pool, result |-> Null,
                   exc |-> AllocateTooLargeBlock(W(0, bytes), p.arenaSize)]
             ELSE [pool |-> r.pool, result |-> Null,
                   exc |-> OutOfFreeArenas(p.numArenas)]
        ELSE [pool |-> r.pool, result |-> r.result, exc |-> NoExc]

CtorDoDeallocate(p, ptr) ==
    LET arenaId == ptr.off \div p.arenaSize
    IN  IF p.build.exceptions /\ arenaId >= p.numArenas
        THEN [pool |-> p, exc |-> ArenaMemoryResourceCorruption]
        ELSE IF arenaId \notin DOMAIN p.numAllocationsInArena
        THEN [pool |-> p, exc |-> NoExc]
        ELSE LET numAllocs == p.numAllocationsInArena[arenaId] - 1
                 p1 == [p EXCEPT !.numAllocationsInArena[arenaId] = numAllocs]
             IN  [pool |-> IF numAllocs = 0
                           THEN IF arenaId = p.activeArenaId
                                THEN [p1 EXCEPT !.bytesLeft = p.arenaSize,
                                                !.data = Ptr(0, p.arenaSize * (arenaId + 1)),
                                                !.numAllocationsInArena[arenaId] = 0]
                                ELSE [p1 EXCEPT !.freeList[p.freeListHead] = arenaId,
                                                !.freeListHead = p.freeListHead + 1,
                                                !.numAllocationsInArena[arenaId] = 0]
                           ELSE p1,
                  exc |-> NoExc]

InitCtor ==
    /\ InitCommon
    /\ arenaDataAddr = 0
    /\ \E build \in Builds : pool = NotConstructed("no", build)
    /\ last = Outcome("start", W(0, 0), NoExc, Null)

Construct(flavor, n, s, garbage) ==
    /\ pool.constructed = "no"
    /\ pool' = DynamicConstructor(flavor, n, s, pool.build, garbage)
    /\ last' = Outcome("construct", W(0, 0),
                       IF pool'.constructed = "threw" THEN RuntimeError ELSE NoExc, Null)
    /\ UNCHANGED <<arenaDataAddr, live, netAllocs, hugeAllocs, mtx, pc, loc>>

CtorAllocate(bytes) ==
    LET r == CtorDoAllocate(pool, bytes)
    IN  /\ pool.constructed = "yes"
        /\ pool.flavor = "unsynchronized"
        /\ (r.result # Null) => (Cardinality(live) < MaxLive)
        /\ pool' = r.pool
        /\ live' = IF r.result = Null THEN live
                   ELSE live \cup {LiveRecord(r.result, W(0, bytes), r.pool.activeArenaId)}
        /\ netAllocs' = IF r.result = Null THEN netAllocs ELSE netAllocs + 1
        /\ last' = Outcome("allocate", W(0, bytes), r.exc, r.result)
        /\ UNCHANGED <<arenaDataAddr, hugeAllocs, mtx, pc, loc>>

CtorDeallocate(rec) ==
    LET r == CtorDoDeallocate(pool, rec.ptr)
    IN  /\ pool' = r.pool
        /\ live' = live \ {rec}
        /\ netAllocs' = IF r.exc = NoExc THEN netAllocs - 1 ELSE netAllocs
        /\ last' = Outcome("deallocate", W(0, 0), r.exc, rec.ptr)
        /\ UNCHANGED <<arenaDataAddr, hugeAllocs, mtx, pc, loc>>

NextCtor ==
    \/ \E flavor \in Flavors, n \in CtorNumArenas, s \in CtorArenaSizes,
          garbage \in IndeterminateBytesLeft : Construct(flavor, n, s, garbage)
    \/ \E bytes \in CtorByteCounts : CtorAllocate(bytes)
    \/ \E rec \in live : CtorDeallocate(rec)

SpecCtor == InitCtor /\ [][NextCtor]_vars

\* C24: a dynamic pool constructed with numArenas == 0 or with an arenaSize
\* that is no multiple of alignof(std::max_align_t) never exists as an
\* object: its constructor aborts or throws.
C24_InvalidGeometryNeverConstructed ==
    (pool.constructed = "yes") => ValidGeometry(pool.numArenas, pool.arenaSize)
\* C24, the part about serving: no allocate returns a pointer from a pool of
\* invalid geometry.
C24_InvalidGeometryNeverServes ==
    (live # {}) => ValidGeometry(pool.numArenas, pool.arenaSize)
\* C24 for the builds in which assert is live.
C24_AssertStopsInvalidGeometry ==
    (~ pool.build.ndebug) => C24_InvalidGeometryNeverConstructed

\* C25: the storage base is a multiple of alignof(std::max_align_t) whatever
\* address the upstream resource returns, so an arena that has just been
\* reserved or reset serves a request of S bytes at every alignment up to
\* alignof(std::max_align_t).
C25_StorageBaseAligned ==
    /\ arenaDataAddr % binSize = 0
    /\ (pool.bytesLeft = arenaSize) =>
           \A alignment \in {a \in Alignments : a <= binSize} :
               LET r == do_allocate(pool, W(0, arenaSize), alignment)
               IN  /\ r.result # Null
                   /\ r.pool.activeArenaId = pool.activeArenaId
\* C25's consequence where the upstream happens to return an aligned address.
C25_FreshArenaServesWhenAligned ==
    (arenaDataAddr % binSize = 0 /\ pool.bytesLeft = arenaSize) =>
        \A alignment \in {a \in Alignments : a <= binSize} :
            LET r == do_allocate(pool, W(0, arenaSize), alignment)
            IN  /\ r.result # Null
                /\ r.pool.activeArenaId = pool.activeArenaId

(***************************************************************************)
(* The statistics resource built with MULTIARENA_DISABLE_EXCEPTIONS        *)
(*                                                                         *)
(* exceptionsEnabled is false: every if constexpr (exceptionsEnabled)      *)
(* block is compiled out.  The client checks what allocate returns and     *)
(* deallocates only pointers it holds.                                     *)
(***************************************************************************)
\* UnsynchronizedArenaResourceBase::do_allocate without its throw.
NoExcDoAllocate(p, bytes, alignment) ==
    IF bytes = W(0, 0)
    THEN [pool |-> p, result |-> Null, exc |-> NoExc]
    ELSE LET r == do_allocate_details(p, bytes, alignment)
         IN  [pool |-> r.pool, result |-> r.result, exc |-> NoExc]

\* UnsynchronizedArenaResourceBase::do_deallocate without its test of arenaId:
\* a counter beyond the array is written outside the members.
NoExcDoDeallocate(p, ptr) ==
    IF ArenaIdOf(ptr) >= numArenas
    THEN [pool |-> p, exc |-> NoExc]
    ELSE do_deallocate(p, ptr)

\* StatisticsArenaResource::do_allocate: the entry is written whatever
\* Base::do_allocate returned.
NoExcStatsDoAllocate(p, bytes, alignment) ==
    LET r == NoExcDoAllocate(p, bytes, alignment)
        m == MapInsert(r.pool.map, r.result, SizeTypeOf(bytes))
    IN  [pool |-> [r.pool EXCEPT !.map = m,
                                 !.maxBusyArenas = Max(@, numberOfBusyArenas(r.pool)),
                                 !.maxNumberOfAllocations = Max(@, Cardinality(DOMAIN m))],
         result |-> r.result,
         exc |-> NoExc]

\* StatisticsArenaResource::do_deallocate: _map.erase is inside the block that
\* is compiled out.
NoExcStatsDoDeallocate(p, ptr) == NoExcDoDeallocate(p, ptr)

\* Half an arena, an arena, and more than an arena.
NoExcByteCounts == {W(0, binSize \div 2), W(0, arenaSize), W(0, arenaSize + binSize)}

InitNoExc ==
    /\ InitCommon
    /\ arenaDataAddr = 0
    /\ pool = StatisticsArenaResource("nullptr", "new_delete_resource")
    /\ last = Outcome("construct", W(0, 0), NoExc, Null)

NoExcAllocate(bytes, alignment) ==
    LET r == NoExcStatsDoAllocate(pool, bytes, alignment)
    IN  /\ (r.result # Null) => (Cardinality(live) < MaxLive)
        /\ pool' = r.pool
        /\ live' = IF r.result = Null THEN live
                   ELSE live \cup {LiveRecord(r.result, bytes, r.pool.activeArenaId)}
        /\ netAllocs' = IF r.result = Null THEN netAllocs ELSE netAllocs + 1
        /\ last' = Outcome("allocate", bytes, r.exc, r.result)
        /\ UNCHANGED <<arenaDataAddr, hugeAllocs, mtx, pc, loc>>

NoExcDeallocate(rec) ==
    LET r == NoExcStatsDoDeallocate(pool, rec.ptr)
    IN  /\ pool' = r.pool
        /\ live' = live \ {rec}
        /\ netAllocs' = netAllocs - 1
        /\ last' = Outcome("deallocate", W(0, 0), r.exc, rec.ptr)
        /\ UNCHANGED <<arenaDataAddr, hugeAllocs, mtx, pc, loc>>

NextNoExc ==
    \/ \E bytes \in NoExcByteCounts, alignment \in StatsAlignments :
           NoExcAllocate(bytes, alignment)
    \/ \E rec \in live : NoExcDeallocate(rec)

SpecNoExc == InitNoExc /\ [][NextNoExc]_vars

\* C26: exceptions disabled: an allocate that cannot be satisfied returns the
\* null pointer and leaves every member as it was, the map and both maxima
\* of the statistics resource included.
C26_FailedAllocateKeepsState ==
    \A bytes \in NoExcByteCounts, alignment \in StatsAlignments :
        LET r == NoExcStatsDoAllocate(pool, bytes, alignment)
        IN  (r.result = Null) => (r.pool = pool)
\* C26 for the base engine alone.
C26_BaseFailedAllocateKeepsState ==
    \A bytes \in NoExcByteCounts, alignment \in StatsAlignments :
        LET r == NoExcDoAllocate(pool, bytes, alignment)
        IN  (r.result = Null) => (r.pool = pool)
\* C26 for the base engine alone and byte alignment.
C26_BaseKeepsStateByteAligned ==
    \A bytes \in NoExcByteCounts :
        LET r == NoExcDoAllocate(pool, bytes, 1)
        IN  (r.result = Null) => (r.pool = pool)

(***************************************************************************)
(* The statistics resource with a bounded resource under its map           *)
(*                                                                         *)
(* The default resource at construction, on which _map allocates its       *)
(* nodes, has room for MapNodes nodes and throws std::bad_alloc when asked *)
(* for more.  Exceptions are enabled.                                      *)
(***************************************************************************)
MapNodes == 2
BadAlloc == [kind |-> "bad_alloc", a |-> W(0, 0), b |-> 0]

\* _map[p] needs a node: p is no key yet.  The resource has none left.
MapInsertFails(m, k) == k \notin DOMAIN m /\ Cardinality(DOMAIN m) >= MapNodes

\* StatisticsArenaResource::do_allocate: when _map[p] throws, the call ends
\* there, after Base::do_allocate.
BoundedStatsDoAllocate(p, bytes, alignment) ==
    LET r == do_allocate(p, bytes, alignment)
    IN  IF r.exc = NoExc /\ MapInsertFails(r.pool.map, r.result)
        THEN [pool |-> r.pool, result |-> Null, exc |-> BadAlloc]
        ELSE StatsDoAllocate(p, bytes, alignment)

BoundedByteCounts == {W(0, 0), W(0, binSize \div 2), W(0, arenaSize)}

InitBounded ==
    /\ InitCommon
    /\ arenaDataAddr = 0
    /\ pool = StatisticsArenaResource("nullptr", "bounded_resource")
    /\ last = Outcome("construct", W(0, 0), NoExc, Null)

\* The pointer of a call that threw never reaches the client.
BoundedAllocate(bytes, alignment) ==
    LET r == BoundedStatsDoAllocate(pool, bytes, alignment)
    IN  /\ (r.result # Null) => (Cardinality(live) < MaxLive)
        /\ pool' = r.pool
        /\ live' = IF r.result = Null THEN live
                   ELSE live \cup {LiveRecord(r.result, bytes, r.pool.activeArenaId)}
        /\ netAllocs' = IF r.result = Null THEN netAllocs ELSE netAllocs + 1
        /\ last' = Outcome("allocate", W(0, 0), r.exc, r.result)
        /\ UNCHANGED <<arenaDataAddr, hugeAllocs, mtx, pc, loc>>

NextBounded ==
    \/ \E bytes \in BoundedByteCounts, alignment \in StatsAlignments :
           BoundedAllocate(bytes, alignment)
    \/ \E rec \in live : StatsDeallocate(rec)

SpecBounded == InitBounded /\ [][NextBounded]_vars

\* C27: statistics resource: an allocate that throws, be it from the base or
\* from the map that gets no memory for its node, leaves the base's members
\* and the map as they were.
C27_FailedAllocateKeepsPoolAndMap ==
    \A bytes \in BoundedByteCounts, alignment \in StatsAlignments :
        LET r == BoundedStatsDoAllocate(pool, bytes, alignment)
        IN  (r.exc # NoExc) => (r.pool = pool)
\* C27 for the map's part: a call that throws leaves the map and the maxima
\* as they were.
C27_FailedAllocateKeepsMap ==
    \A bytes \in BoundedByteCounts, alignment \in StatsAlignments :
        LET r == BoundedStatsDoAllocate(pool, bytes, alignment)
        IN  (r.exc # NoExc) =>
                /\ r.pool.map = pool.map
                /\ r.pool.maxBusyArenas = pool.maxBusyArenas
                /\ r.pool.maxNumberOfAllocations = pool.maxNumberOfAllocations

\* C28: unsynchronized engine: an allocate of at most S bytes that reserves
\* the next free arena is served from that arena, so that one call takes at
\* most one arena from the free list.
C28_AtMostOneArenaPerAllocate ==
    [][last'.op = "allocate" =>
           /\ pool'.freeListHead >= pool.freeListHead - 1
           /\ (pool'.freeListHead < pool.freeListHead) => (last'.ret = "pointer")]_vars
\* C28 for a storage base that is a multiple of alignof(std::max_align_t) and
\* alignments up to alignof(std::max_align_t).
C28_OneArenaWhenAligned ==
    (arenaDataAddr % binSize = 0) =>
        \A bytes \in SmallByteCounts, alignment \in {a \in Alignments : a <= binSize} :
            LET r == do_allocate(pool, bytes, alignment)
            IN  /\ r.pool.freeListHead >= pool.freeListHead - 1
                /\ (r.pool.freeListHead < pool.freeListHead) => (r.result # Null)

\* The arenas in freeList[0 .. freeListHead), with repetitions.
FreeListPositions(a) == {i \in 0 .. (pool.freeListHead - 1) : pool.freeList[i] = a}
BusyNonActiveArenas ==
    {a \in ArenaIds : a # pool.activeArenaId /\ allocationsInArena(pool, a) # 0}

\* C29: unsynchronized engine, between calls: every arena is the active arena,
\* or is once in freeList[0 .. freeListHead) with no live allocation, or is
\* not active and has live allocations, and is only one of the three; hence
\* freeListHead + 1 + (number of busy non-active arenas) = N, and the active
\* arena is not in the free list.
C29_ArenaStatesPartition ==
    /\ \A a \in ArenaIds :
           \/ /\ a = pool.activeArenaId
              /\ FreeListPositions(a) = {}
           \/ /\ a # pool.activeArenaId
              /\ Cardinality(FreeListPositions(a)) = 1
              /\ allocationsInArena(pool, a) = 0
           \/ /\ a # pool.activeArenaId
              /\ FreeListPositions(a) = {}
              /\ allocationsInArena(pool, a) # 0
    /\ pool.freeListHead + 1 + Cardinality(BusyNonActiveArenas) = numArenas
\* C29, the parts about the free list alone: the active arena is not in it,
\* no arena is in it twice, and the arenas in it have no live allocation.
C29_FreeListIsSound ==
    /\ FreeListPositions(pool.activeArenaId) = {}
    /\ \A a \in ArenaIds :
           /\ Cardinality(FreeListPositions(a)) <= 1
           /\ (FreeListPositions(a) # {}) => (allocationsInArena(pool, a) = 0)
\* The same as long as no request of 2^32 - 8 bytes or more has been served.
C29_FreeListSoundBeforeTruncation == (hugeAllocs = 0) => C29_FreeListIsSound
\* C29 for a storage base that is a multiple of alignof(std::max_align_t), in
\* the specification whose requests are of at most S bytes with alignments up
\* to alignof(std::max_align_t).
C29_PartitionWhenAligned == (arenaDataAddr = 0) => C29_ArenaStatesPartition

\* C30: synchronized engine: a deallocate call that takes the mutex goes on
\* to reset the active arena or to push an arena onto the free list.
C30_MutexOnlyWhenRecycling ==
    [][\A t \in Threads : (pc[t] = "dealloc_locked") => (pc'[t] # "idle")]_vars
\* C30 amended: a deallocate call takes the mutex only after it read equal
\* counters (its own deallocation counted) for the arena; under the mutex it
\* recycles the arena if the counters still have the value it read, and
\* otherwise leaves the pool as it is.  A call that read unequal counters ends
\* without the mutex and without touching the pool again.
C30_MutexOnlyAfterVacantRead ==
    [][\A t \in Threads :
           LET a == loc[t].arenaId
               stillVacant == /\ loc[t].numAllocs = pool.numAllocationsInArena[a]
                              /\ loc[t].numAllocs = pool.numDeallocationsInArena[a]
           IN  /\ (pc[t] = "dealloc_lock" /\ pc'[t] = "dealloc_locked")
                      => (loc[t].numAllocs = loc[t].numDeallocs /\ mtx' = t)
               /\ (pc[t] = "dealloc_load" /\ pc'[t] = "idle")
                      => /\ pool.numAllocationsInArena[a] # loc[t].numDeallocs
                         /\ mtx # t /\ mtx' = mtx /\ pool' = pool
               /\ (pc[t] = "dealloc_locked" /\ pc'[t] = "dealloc_zero")
                      => (stillVacant /\ pool' # pool)
               /\ (pc[t] = "dealloc_locked" /\ pc'[t] = "idle")
                      => (~ stillVacant /\ pool' = pool /\ mtx' = 0)]_vars
\* A call holds the mutex and finds that another call has allocated from the
\* arena since it read the counters.
C30_Witness ==
    \E t \in Threads :
        /\ pc[t] = "dealloc_locked"
        /\ mtx = t
        /\ loc[t].numAllocs = loc[t].numDeallocs
        /\ loc[t].numAllocs # pool.numAllocationsInArena[loc[t].arenaId]

\* The members a step has written, apart from increments of
\* _numDeallocationsInArena.
LockedWrite ==
    \/ pool'.data # pool.data
    \/ pool'.bytesReserved # pool.bytesReserved
    \/ pool'.activeArenaId # pool.activeArenaId
    \/ pool'.freeListHead # pool.freeListHead
    \/ pool'.freeList # pool.freeList
    \/ pool'.numAllocationsInArena # pool.numAllocationsInArena
    \/ \E i \in SyncArenaIds :
           pool'.numDeallocationsInArena[i] < pool.numDeallocationsInArena[i]
\* C31: synchronized engine: a step that writes the bump pointer,
\* bytesReserved, activeArenaId, freeListHead, a free-list slot or the
\* allocation counter, or that sets a counter back to zero, is a step of the
\* thread that holds the mutex; a step taken without the mutex changes at most
\* one deallocation counter, by adding one to it.
C31_WritesHoldMutex ==
    [][/\ LockedWrite =>
              /\ mtx \in Threads
              /\ pc[mtx] \in {"alloc_locked", "dealloc_locked", "dealloc_zero"}
              /\ \A u \in Threads \ {mtx} : pc'[u] = pc[u] /\ loc'[u] = loc[u]
       /\ (pool' # pool /\ ~ LockedWrite) =>
              \E i \in SyncArenaIds :
                  pool' = [pool EXCEPT !.numDeallocationsInArena[i] = @ + 1]]_vars
\* The holder of the mutex has pushed an arena onto the free list or reset the
\* active arena and is about to store the second zero.
C31_Witness ==
    \E t \in Threads : pc[t] = "dealloc_zero" /\ mtx = t

\* The allocations of arena i that the clients hold.
LiveInArena(i) == Cardinality({r \in live : r.arena = i})
\* The arena whose counters the holder of the mutex is setting to zero, between
\* the store to _numDeallocationsInArena and the store to
\* _numAllocationsInArena.
BeingZeroed(i) ==
    \E t \in Threads : pc[t] = "dealloc_zero" /\ mtx = t /\ loc[t].arenaId = i
IsStatistics == "map" \in DOMAIN pool

\* The allocations the clients of the statistics resource hold or have asked
\* for, at most; the synchronized pool is full after two.
ThreadMaxLive == 1

\* A whole arena, and a byte more, for either resource.
SyncThreadByteCounts == {W(0, syncArenaSize), W(0, syncArenaSize + 1)}
StatsThreadByteCounts == {W(0, arenaSize), W(0, arenaSize + 1)}

\* std::accumulate over _map with a std::size_t init.
RECURSIVE bytesAllocated(_)
bytesAllocated(m) ==
    IF DOMAIN m = {} THEN W(0, 0)
    ELSE LET k == CHOOSE x \in DOMAIN m : TRUE
         IN  WAdd(SizeTypeValue(m[k]), bytesAllocated(MapErase(m, k)))

InitThreads ==
    /\ InitCommon
    /\ arenaDataAddr = 0
    /\ pool \in {SyncInitializeArenas,
                 StatisticsArenaResource("nullptr", "new_delete_resource")}
    /\ last = [t \in Threads |-> Outcome("construct", W(0, 0), NoExc, Null)]

\* SynchronizedArenaResourceBase::do_allocate up to _mtx.lock().
ThreadAllocateCall(t, bytes) ==
    /\ ~ IsStatistics
    /\ pc[t] = "idle"
    /\ ~ SyncReturnsEarly(bytes)
    /\ pc' = [pc EXCEPT ![t] = "alloc_lock"]
    /\ loc' = [loc EXCEPT ![t] = [NoLocals EXCEPT !.bytes = bytes]]
    /\ UNCHANGED <<arenaDataAddr, pool, live, last, netAllocs, hugeAllocs, mtx>>

\* The queries of the synchronized engine, which take the mutex, and those of
\* the statistics resource, which do not: one that reads _map, one of the
\* unsynchronized base that reads its counters.
SyncQueries == {"numberOfAllocations", "numberOfBusyArenas"}
StatsQueries == {"bytesAllocated", "stats_numberOfAllocations"}

\* A query up to its lock_guard, or up to its first read if it has none.
ThreadQueryCall(t, q) ==
    /\ q \in (IF IsStatistics THEN StatsQueries ELSE SyncQueries)
    /\ pc[t] = "idle"
    /\ pc' = [pc EXCEPT ![t] = IF IsStatistics THEN "stats_query" ELSE "query_lock"]
    /\ loc' = [loc EXCEPT ![t] = [query |-> q]]
    /\ UNCHANGED <<arenaDataAddr, pool, live, last, netAllocs, hugeAllocs, mtx>>

\* numberOfAllocations() or numberOfBusyArenas() of the synchronized engine:
\* the body and the lock_guard's unlock.
ThreadQueryRead(t) ==
    /\ pc[t] = "query_locked"
    /\ last' = [last EXCEPT ![t] =
                   [op |-> loc[t].query, exc |-> NoExc, ret |-> "value",
                    value |-> IF loc[t].query = "numberOfAllocations"
                              THEN SyncNumberOfAllocations(pool)
                              ELSE W(0, SyncNumberOfBusyArenas(pool))]]
    /\ mtx' = 0
    /\ pc' = [pc EXCEPT ![t] = "idle"]
    /\ loc' = [loc EXCEPT ![t] = NoLocals]
    /\ UNCHANGED <<arenaDataAddr, pool, live, netAllocs, hugeAllocs>>

\* StatisticsArenaResource::do_allocate up to the lock_guard.
StatsThreadAllocateCall(t, bytes) ==
    /\ IsStatistics
    /\ pc[t] = "idle"
    /\ Cardinality(live)
           + Cardinality({u \in Threads :
                             pc[u] \in {"stats_allocate_lock", "stats_allocate_base",
                                        "stats_allocate_map"}}) < ThreadMaxLive
    /\ pc' = [pc EXCEPT ![t] = "stats_allocate_lock"]
    /\ loc' = [loc EXCEPT ![t] = [bytes |-> bytes, p |-> Null]]
    /\ UNCHANGED <<arenaDataAddr, pool, live, last, netAllocs, hugeAllocs, mtx>>

\* A faulty do_allocate whose mutex stays locked when the base throws.
StatsThreadAllocateBase_ThrowKeepsMutex(t) ==
    /\ pc[t] = "stats_allocate_base"
    /\ LET r == do_allocate(pool, loc[t].bytes, 1)
       IN  /\ pool' = r.pool
           /\ IF r.exc # NoExc
              THEN /\ pc' = [pc EXCEPT ![t] = "idle"]
                   /\ loc' = [loc EXCEPT ![t] = NoLocals]
                   /\ last' = [last EXCEPT ![t] =
                                  Outcome("allocate", loc[t].bytes, r.exc, r.result)]
                   /\ UNCHANGED mtx
              ELSE /\ pc' = [pc EXCEPT ![t] = "stats_allocate_map"]
                   /\ loc' = [loc EXCEPT ![t] = [bytes |-> loc[t].bytes, p |-> r.result]]
                   /\ UNCHANGED <<mtx, last>>
    /\ UNCHANGED <<arenaDataAddr, live, netAllocs, hugeAllocs>>

\* void* p = Base::do_allocate(bytes, alignment); a throw unlocks the lock_guard.
StatsThreadAllocateBase(t) ==
    /\ pc[t] = "stats_allocate_base"
    /\ LET r == do_allocate(pool, loc[t].bytes, 1)
       IN  /\ pool' = r.pool
           /\ IF r.exc # NoExc
              THEN /\ mtx' = 0
                   /\ pc' = [pc EXCEPT ![t] = "idle"]
                   /\ loc' = [loc EXCEPT ![t] = NoLocals]
                   /\ last' = [last EXCEPT ![t] =
                                  Outcome("allocate", loc[t].bytes, r.exc, r.result)]
              ELSE /\ pc' = [pc EXCEPT ![t] = "stats_allocate_map"]
                   /\ loc' = [loc EXCEPT ![t] = [bytes |-> loc[t].bytes, p |-> r.result]]
                   /\ UNCHANGED <<mtx, last>>
    /\ UNCHANGED <<arenaDataAddr, live, netAllocs, hugeAllocs>>

\* _map[p] = bytes; the two maxima; return p; the lock_guard's unlock.
StatsThreadAllocateMap(t) ==
    /\ pc[t] = "stats_allocate_map"
    /\ LET m == MapInsert(pool.map, loc[t].p, SizeTypeOf(loc[t].bytes))
       IN  pool' = [pool EXCEPT
                       !.map = m,
                       !.maxBusyArenas = Max(@, numberOfBusyArenas(pool)),
                       !.maxNumberOfAllocations = Max(@, Cardinality(DOMAIN m))]
    /\ live' = live \cup {LiveRecord(loc[t].p, loc[t].bytes, pool.activeArenaId)}
    /\ netAllocs' = netAllocs + 1
    /\ last' = [last EXCEPT ![t] = Outcome("allocate", loc[t].bytes, NoExc, loc[t].p)]
    /\ mtx' = 0
    /\ pc' = [pc EXCEPT ![t] = "idle"]
    /\ loc' = [loc EXCEPT ![t] = NoLocals]
    /\ UNCHANGED <<arenaDataAddr, hugeAllocs>>

\* StatisticsArenaResource::do_deallocate up to the lock_guard: of a pointer
\* the client holds (recs is its record), or of an address that no allocation
\* has (recs is empty).
StatsThreadDeallocateCall(t, ptr, recs) ==
    /\ IsStatistics
    /\ pc[t] = "idle"
    /\ live' = live \ recs
    /\ pc' = [pc EXCEPT ![t] = "stats_deallocate_lock"]
    /\ loc' = [loc EXCEPT ![t] = [bytes |-> W(0, 0), p |-> ptr]]
    /\ UNCHANGED <<arenaDataAddr, pool, last, netAllocs, hugeAllocs, mtx>>

\* if (_map.erase(p) == 0) throw std::runtime_error(...), which unlocks.
StatsThreadDeallocateErase(t) ==
    /\ pc[t] = "stats_deallocate_erase"
    /\ IF exceptionsEnabled /\ loc[t].p \notin DOMAIN pool.map
       THEN /\ mtx' = 0
            /\ pc' = [pc EXCEPT ![t] = "idle"]
            /\ loc' = [loc EXCEPT ![t] = NoLocals]
            /\ last' = [last EXCEPT ![t] =
                           Outcome("deallocate", W(0, 0), RuntimeError, loc[t].p)]
            /\ UNCHANGED pool
       ELSE /\ pool' = [pool EXCEPT !.map = MapErase(pool.map, loc[t].p)]
            /\ pc' = [pc EXCEPT ![t] = "stats_deallocate_base"]
            /\ UNCHANGED <<mtx, loc, last>>
    /\ UNCHANGED <<arenaDataAddr, live, netAllocs, hugeAllocs>>

\* return Base::do_deallocate(p, bytes, alignment); the lock_guard's unlock.
StatsThreadDeallocateBase(t) ==
    /\ pc[t] = "stats_deallocate_base"
    /\ LET r == do_deallocate(pool, loc[t].p)
       IN  /\ pool' = r.pool
           /\ netAllocs' = IF r.exc = NoExc THEN netAllocs - 1 ELSE netAllocs
           /\ last' = [last EXCEPT ![t] = Outcome("deallocate", W(0, 0), r.exc, loc[t].p)]
    /\ mtx' = 0
    /\ pc' = [pc EXCEPT ![t] = "idle"]
    /\ loc' = [loc EXCEPT ![t] = NoLocals]
    /\ UNCHANGED <<arenaDataAddr, live, hugeAllocs>>

\* Where a thread is between the first and the last write of do_allocate or
\* do_deallocate to _map and to the base's members.
StatsModifying == {"stats_allocate_base", "stats_allocate_map",
                   "stats_deallocate_erase", "stats_deallocate_base"}

\* What a read that races with a write may give.
Indeterminate == W(0 - 1, 0 - 1)

\* The body of a query of the statistics resource.  Its reads are not ordered
\* with the writes of a thread that is inside do_allocate or do_deallocate: a
\* data race, after which the call may return anything.
StatsThreadQueryRead(t) ==
    /\ pc[t] = "stats_query"
    /\ LET value == IF loc[t].query = "bytesAllocated" THEN bytesAllocated(pool.map)
                    ELSE numberOfAllocations(pool)
           racing == \E u \in Threads \ {t} : pc[u] \in StatsModifying
       IN  \E v \in {value} \cup (IF racing THEN {Indeterminate} ELSE {}) :
               last' = [last EXCEPT ![t] =
                           [op |-> loc[t].query, exc |-> NoExc, ret |-> "value", value |-> v]]
    /\ pc' = [pc EXCEPT ![t] = "idle"]
    /\ loc' = [loc EXCEPT ![t] = NoLocals]
    /\ UNCHANGED <<arenaDataAddr, pool, live, netAllocs, hugeAllocs, mtx>>

\* Where a thread that waits for a mutex is, and where it is once it has it.
AfterLock ==
    [x \in {"alloc_lock", "dealloc_lock", "query_lock", "stats_allocate_lock",
            "stats_deallocate_lock"} |->
        CASE x = "alloc_lock" -> "alloc_locked"
          [] x = "dealloc_lock" -> "dealloc_locked"
          [] x = "query_lock" -> "query_locked"
          [] x = "stats_allocate_lock" -> "stats_allocate_base"
          [] x = "stats_deallocate_lock" -> "stats_deallocate_erase"]

\* _mtx.lock(), or the constructor of a lock_guard.
ThreadLocks(t) ==
    /\ pc[t] \in DOMAIN AfterLock
    /\ mtx = 0
    /\ mtx' = t
    /\ pc' = [pc EXCEPT ![t] = AfterLock[pc[t]]]
    /\ UNCHANGED <<arenaDataAddr, pool, live, last, netAllocs, hugeAllocs, loc>>

\* The other steps of thread t inside a call.
ThreadRuns(t) ==
    \/ SyncAllocateDetails(t)
    \/ SyncDeallocateLoad(t)
    \/ SyncDeallocateCheck(t)
    \/ SyncDeallocateZero(t)
    \/ ThreadQueryRead(t)
    \/ StatsThreadAllocateBase(t)
    \/ StatsThreadAllocateMap(t)
    \/ StatsThreadDeallocateErase(t)
    \/ StatsThreadDeallocateBase(t)
    \/ StatsThreadQueryRead(t)

\* A thread starts a call (the statistics resource is also handed the middle
\* of a bin, an address no allocate returns), takes a mutex, or goes on.
NextThreads ==
    \E t \in Threads :
        \/ \E bytes \in SyncThreadByteCounts :
               ~ IsStatistics /\ SyncAllocateEarly(t, bytes, 1)
        \/ \E bytes \in SyncThreadByteCounts : ThreadAllocateCall(t, bytes)
        \/ \E rec \in live : ~ IsStatistics /\ SyncDeallocateFetchAdd(t, rec)
        \/ \E q \in SyncQueries \cup StatsQueries : ThreadQueryCall(t, q)
        \/ \E bytes \in StatsThreadByteCounts : StatsThreadAllocateCall(t, bytes)
        \/ \E rec \in live : StatsThreadDeallocateCall(t, rec.ptr, {rec})
        \/ StatsThreadDeallocateCall(t, Ptr(0, binSize \div 2), {})
        \/ ThreadLocks(t)
        \/ ThreadRuns(t)

\* A thread inside a call is scheduled again and again, and a thread that
\* waits for the mutex gets it if the mutex is free again and again; a client
\* need not start another call.
SpecThreads ==
    /\ InitThreads
    /\ [][NextThreads]_vars
    /\ \A t \in Threads : WF_vars(ThreadRuns(t)) /\ SF_vars(ThreadLocks(t))

\* Where the thread that holds a mutex is.
HoldingMutex == {"alloc_locked", "dealloc_locked", "dealloc_zero", "query_locked"}
                    \cup StatsModifying
NewAllocations == live' \ live
\* r lies in arena a of a pool with arenas of the given size.
LiesInArena(r, a, size) ==
    /\ r.ptr.wrap = 0
    /\ r.bytes.hi = 0
    /\ a * size <= r.ptr.off
    /\ r.ptr.off + r.bytes.lo <= (a + 1) * size
\* C34: unsynchronized engine: an arena becomes active only by being popped
\* from the free list, and then holds no live allocation; an allocation is
\* placed in the arena that is active when the call returns; an arena that is
\* not active receives no allocation.
C34_ArenaLifecycle ==
    [][/\ pool'.activeArenaId # pool.activeArenaId =>
              /\ FreeListPositions(pool'.activeArenaId) # {}
              /\ pool'.freeListHead < pool.freeListHead
              /\ \A r \in live : ~ LiesInArena(r, pool'.activeArenaId, arenaSize)
       /\ \A r \in NewAllocations :
              /\ LiesInArena(r, pool'.activeArenaId, arenaSize)
              /\ ArenaIdOf(r.ptr) = pool'.activeArenaId
       /\ \A a \in ArenaIds \ {pool'.activeArenaId} :
              pool'.numAllocationsInArena[a] <= pool.numAllocationsInArena[a]]_vars
\* The same while no request of 2^32 bytes or more has been served.
C34_LifecycleBeforeTruncation ==
    [][hugeAllocs' = 0 =>
          /\ pool'.activeArenaId # pool.activeArenaId =>
                 /\ FreeListPositions(pool'.activeArenaId) # {}
                 /\ pool'.freeListHead < pool.freeListHead
                 /\ \A r \in live : ~ LiesInArena(r, pool'.activeArenaId, arenaSize)
          /\ \A r \in NewAllocations :
                 /\ LiesInArena(r, pool'.activeArenaId, arenaSize)
                 /\ ArenaIdOf(r.ptr) = pool'.activeArenaId
          /\ \A a \in ArenaIds \ {pool'.activeArenaId} :
                 pool'.numAllocationsInArena[a] <= pool.numAllocationsInArena[a]]_vars
\* C34, synchronized engine, in every interleaving.
C34_SyncArenaLifecycle ==
    [][/\ pool'.activeArenaId # pool.activeArenaId =>
              /\ \E i \in 0 .. (pool.freeListHead - 1) :
                     pool.freeList[i] = pool'.activeArenaId
              /\ pool'.freeListHead < pool.freeListHead
              /\ \A r \in live : ~ LiesInArena(r, pool'.activeArenaId, syncArenaSize)
       /\ \A r \in NewAllocations :
              /\ LiesInArena(r, pool'.activeArenaId, syncArenaSize)
              /\ SyncArenaIdOf(r.ptr) = pool'.activeArenaId
       /\ \A a \in SyncArenaIds \ {pool'.activeArenaId} :
              pool'.numAllocationsInArena[a] <= pool.numAllocationsInArena[a]]_vars

\* The active arena as reserveNextArena leaves it.
ActiveArenaIsFresh(p) ==
    /\ p.bytesLeft = arenaSize
    /\ p.data = Ptr(0, arenaSize * (p.activeArenaId + 1))
\* C35: unsynchronized engine, between calls: when the active arena's count of
\* allocations is zero, bytesLeft is S and the bump pointer is at the arena's
\* upper bound; a deallocate that brings the active arena's count to zero
\* leaves activeArenaId, freeListHead and the free list as they were.
C35_EmptyActiveArenaIsFresh ==
    /\ [](allocationsInArena(pool, pool.activeArenaId) = 0 => ActiveArenaIsFresh(pool))
    /\ [][(/\ last'.op = "deallocate"
           /\ allocationsInArena(pool, pool.activeArenaId) # 0
           /\ allocationsInArena(pool', pool.activeArenaId) = 0)
              => /\ pool'.activeArenaId = pool.activeArenaId
                 /\ pool'.freeListHead = pool.freeListHead
                 /\ pool'.freeList = pool.freeList
                 /\ ActiveArenaIsFresh(pool')]_vars
\* The same while no request of 2^32 - 8 bytes or more has been served.
C35_FreshBeforeTruncation ==
    /\ []((hugeAllocs = 0 /\ allocationsInArena(pool, pool.activeArenaId) = 0)
              => ActiveArenaIsFresh(pool))
    /\ [][(/\ hugeAllocs = 0
           /\ last'.op = "deallocate"
           /\ allocationsInArena(pool, pool.activeArenaId) # 0
           /\ allocationsInArena(pool', pool.activeArenaId) = 0)
              => /\ pool'.activeArenaId = pool.activeArenaId
                 /\ pool'.freeListHead = pool.freeListHead
                 /\ pool'.freeList = pool.freeList
                 /\ ActiveArenaIsFresh(pool')]_vars

\* C36: statistics resource used from several threads: no query reads _map or
\* the base's counters while another thread is inside do_allocate or
\* do_deallocate, between its first and its last write to them.
C36_QueriesSerialized ==
    [][\A t \in Threads :
           (pc[t] = "stats_query" /\ pc'[t] = "idle")
               => \A u \in Threads \ {t} : pc[u] \notin StatsModifying]_vars
\* C36, for the outcome: no query returns an indeterminate value.
C36_QueriesDeterminate ==
    \A t \in Threads : last[t].ret = "value" => last[t].value # Indeterminate
\* Calls of do_allocate and do_deallocate exclude each other.
C36_WritersSerialized ==
    \A t, u \in Threads :
        (t # u /\ pc[t] \in StatsModifying) => pc[u] \notin StatsModifying

\* C37: statistics resource, either build: deallocate of a pointer that has
\* an entry in the map removes the entry, and bytesAllocated() goes down by
\* the entry's byte count.
C37_DeallocateRemovesEntry ==
    [][\A rec \in live \ live' :
           rec.ptr \in DOMAIN pool.map =>
               /\ rec.ptr \notin DOMAIN pool'.map
               /\ bytesAllocated(pool.map) =
                      WAdd(bytesAllocated(pool'.map), SizeTypeValue(pool.map[rec.ptr]))]_vars

\* C38: statistics resource: with at least one entry in the map and p in
\* (0, 1], the loop of percentile(p) moves the iterator past at least one
\* histogram entry, and the call returns one value, a key of histogram().
C38_PercentileIsHistogramKey ==
    (pool.map # EmptyMap) =>
        \A p \in Percents :
            LET hist == histogram(pool.map)
                T == SumFrequencies(hist, DOMAIN hist)
                order == SortedKeys(DOMAIN hist)
            IN  /\ PercentileLoop(hist, order, 1, 0, (p.num * T) \div p.den) > 1
                /\ percentile(pool.map, p.num, p.den) \subseteq DOMAIN hist
                /\ Cardinality(percentile(pool.map, p.num, p.den)) = 1
\* The same for the p with p * T >= 1.
C38_HistogramKeyWhenLimitPositive ==
    (pool.map # EmptyMap) =>
        \A p \in Percents :
            LET hist == histogram(pool.map)
                T == SumFrequencies(hist, DOMAIN hist)
                order == SortedKeys(DOMAIN hist)
            IN  (p.num * T >= p.den) =>
                    /\ PercentileLoop(hist, order, 1, 0, (p.num * T) \div p.den) > 1
                    /\ percentile(pool.map, p.num, p.den) \subseteq DOMAIN hist
                    /\ Cardinality(percentile(pool.map, p.num, p.den)) = 1

\* r.ptr is the upper bound of the arena r was allocated in.
AtUpperBound(r, size) == r.ptr.wrap = 0 /\ r.ptr.off = (r.arena + 1) * size
\* C39: unsynchronized engine: for every pointer that allocate has returned,
\* the arena id that do_deallocate derives from it is the id of the arena that
\* was active, and whose counter was incremented, when it was allocated; and
\* the pointer is not that arena's upper bound.
C39_DerivedArenaIsAllocatingArena ==
    \A r \in live : ArenaIdOf(r.ptr) = r.arena /\ ~ AtUpperBound(r, arenaSize)
\* The same for the allocations of less than 2^32 - 8 bytes.
C39_DerivedArenaForSmallRequests ==
    \A r \in live :
        IsSmall(r) => (ArenaIdOf(r.ptr) = r.arena /\ ~ AtUpperBound(r, arenaSize))
\* C39, synchronized engine, in every interleaving.
C39_SyncDerivedArenaIsAllocatingArena ==
    \A r \in live : SyncArenaIdOf(r.ptr) = r.arena /\ ~ AtUpperBound(r, syncArenaSize)

\* Thread t's do_allocate finds, under the mutex, that no arena can serve it.
DecidesOutOfFreeArenas(t) ==
    /\ pc[t] = "alloc_locked"
    /\ pc'[t] = "idle"
    /\ last'[t].exc = OutOfFreeArenas(syncNumArenas)
\* C40: synchronized engine: when an allocate of at most S bytes is found to
\* fail for want of a free arena, every arena holds a live allocation.
C40_FailsOnlyWhenEveryArenaBusy ==
    [][\A t \in Threads :
           DecidesOutOfFreeArenas(t) => \A i \in SyncArenaIds : LiveInArena(i) >= 1]_vars
\* The same when no deallocate is between its fetch_add and its return.
C40_FailsOnlyWhenBusyOrDeallocating ==
    [][\A t \in Threads :
           DecidesOutOfFreeArenas(t) =>
               \/ \A i \in SyncArenaIds : LiveInArena(i) >= 1
               \/ \E u \in Threads :
                      /\ pc[u] \in {"dealloc_load", "dealloc_lock"}
                      /\ LiveInArena(loc[u].arenaId) = 0]_vars
====
